---- MODULE Spec2Model ----
(***************************************************************************)
(* Container lifecycle controller of flanksource/commons-test              *)
(* (package container): the generic Container handle, the SQL Server and   *)
(* ActiveMQ workloads layered on it, and the container engine they drive;  *)
(* and, each under a specification of its own, the values of a HelmChart,  *)
(* the Kind cluster manager and Pod.ForwardPort (packages helm and kind).  *)
(*                                                                         *)
(* Representation.  A container identifier is a natural number, 0 standing *)
(* for the empty string "".  Go strings that the code inspects (container  *)
(* names, the engine's status text) are sequences of one-character         *)
(* strings; an error is the chain of its messages, outermost first, as     *)
(* fmt.Errorf("...: %w", err) builds it, and nil is the empty chain.       *)
(***************************************************************************)
EXTENDS Integers, Sequences, FiniteSets, TLC

VARIABLES
    kind,         \* which handle type was constructed: "generic" | "sql" | "amq"
    reuse,        \* Config.Reuse
    cfgName,      \* Config.Name
    containerID,  \* Container.containerID (0 = "")
    isRunning,    \* Container.isRunning
    endpoints,    \* connectionString / brokerURL / webConsoleURL of the workload
    engine,       \* the container engine: id -> [state, name]
    nextId,       \* the identifier the engine hands out at the next create
    cancelled,    \* whether the ctx of the call in progress is cancelled
    pc,           \* position of the (single) caller inside the call in progress
    i,            \* loop variable of the polling loop in progress
    call,         \* observation of the call in progress / last completed call
    hist,         \* what the calls completed before that one were
    chart,        \* a HelmChart builder (package helm)
    cluster,      \* a Kind cluster manager (package kind) and its cluster
    forward       \* a Pod.ForwardPort call (package helm) and its port-forward

vars == <<kind, reuse, cfgName, containerID, isRunning, endpoints, engine,
          nextId, cancelled, pc, i, call, hist, chart, cluster, forward>>

\* the objects of the packages helm and kind; no operation of a container
\* handle reads or changes them
otherVars == <<chart, cluster, forward>>

\* what no operation of a container handle changes
cfgVars == <<kind, reuse, cfgName, otherVars>>

\* an object of the packages helm and kind that the program has not built
Unbuilt == "none"

NoOthers == chart = Unbuilt /\ cluster = Unbuilt /\ forward = Unbuilt

-----------------------------------------------------------------------------
(* Bounds of the model *)

\* identifiers the engine can hand out (containers that can ever exist)
MaxContainers == 3

-----------------------------------------------------------------------------
(* Strings and errors *)

NoID == 0

nil == << >>

\* fmt.Errorf(msg + ": %w", e)
Wrap(msg, e) == <<msg>> \o e

\* fmt.Errorf(msg)
Errorf(msg) == <<msg>>

\* ctx.Err() of a cancelled context
ctxErr == <<"context canceled">>

\* errors.Is(e, context.Canceled)
IsCtxErr(e) == e # nil /\ e[Len(e)] = "context canceled"

\* strings.TrimPrefix
TrimPrefix(s, p) ==
    IF Len(s) >= Len(p) /\ SubSeq(s, 1, Len(p)) = p
    THEN SubSeq(s, Len(p) + 1, Len(s))
    ELSE s

\* strings.Contains
Contains(s, sub) ==
    \E k \in 1..(Len(s) - Len(sub) + 1) : SubSeq(s, k, k + Len(sub) - 1) = sub

\* strings.HasPrefix
HasPrefix(s, p) == Len(s) >= Len(p) /\ SubSeq(s, 1, Len(p)) = p

-----------------------------------------------------------------------------
(* The container engine (external collaborator) *)

Ids == 1..MaxContainers

\* a container of another project that is on the machine throughout; its
\* name has the configured name as a proper prefix
ForeignID == NoID + 1

ForeignName == <<"n", "x">>

Absent == [state |-> "none", name |-> << >>]

\* the name the engine gives a container created without --name
AutoName == <<"a", "u", "t", "o">>

Exists(id) == id \in Ids /\ engine[id].state # "none"

Running(id) == id \in Ids /\ engine[id].state = "running"

\* Status column of the engine's listing
StatusText(st) ==
    CASE st = "running" -> <<"U", "p", " ", "2", " ", "h", "o", "u", "r", "s">>
      [] st = "exited"  -> <<"E", "x", "i", "t", "e", "d", " ", "(", "0", ")">>
      [] OTHER          -> <<"C", "r", "e", "a", "t", "e", "d">>

\* ContainerList(All: true): newest first, names reported with a leading "/"
RECURSIVE ListFrom(_)
ListFrom(id) ==
    IF id = 0 THEN << >>
    ELSE (IF Exists(id)
          THEN << [ID |-> id,
                   Names |-> << <<"/">> \o engine[id].name >>,
                   Status |-> StatusText(engine[id].state)] >>
          ELSE << >>) \o ListFrom(id - 1)

ContainerList == ListFrom(MaxContainers)

\* the container that has exactly this name, NoID when there is none
NamedAs(name) ==
    IF \E id \in Ids : Exists(id) /\ engine[id].name = name
    THEN CHOOSE id \in Ids : Exists(id) /\ engine[id].name = name
    ELSE NoID

\* the engine refuses a second container with a name in use
NameFree(name) == \A id \in Ids : Exists(id) => engine[id].name # name


-----------------------------------------------------------------------------
(* Configuration *)

\* Config.Ports of the handle: the container ports it asks to publish
Ports ==
    CASE kind = "sql" -> {"1433"}
      [] kind = "amq" -> {"61616", "8161", "1099"}
      [] OTHER        -> {"9898"}

\* a container port no handle asks for
UnmappedPort == "9999"

PortIndex(p) ==
    CASE p = "61616" -> 1 [] p = "8161" -> 2 [] p = "1099" -> 3 [] OTHER -> 0

\* the host port the engine assigned to a published port of a container
HostPortOf(id, p) == ToString(32768 + 10 * id + PortIndex(p))

\* inspect.NetworkSettings.Ports[p/tcp]: bindings exist while the container runs
PortBindings(id, p) ==
    IF Running(id) /\ id # ForeignID /\ p \in Ports
    THEN << [HostPort |-> HostPortOf(id, p)] >>
    ELSE << >>

\* the error of a failed engine call (daemon unreachable, no such container, ...)
engineErr == <<"engine error">>

-----------------------------------------------------------------------------
(* Observation of calls (history variables; the code does not read them) *)

\* brokerPort and webPort are the local variables of ActiveMQContainer.Start,
\* which lives as long as the call: the host ports its first two lookups found
NoCall ==
    [op |-> "none", done |-> TRUE, err |-> nil,
     retBool |-> FALSE, retStr |-> "", arg |-> "",
     preID |-> NoID, preRunning |-> FALSE,
     nList |-> 0, nImageInspect |-> 0, nPull |-> 0, nCreate |-> 0,
     nStart |-> 0, nStop |-> 0, nRemove |-> 0, nStateInspect |-> 0,
     nPortInspect |-> 0,
     nPoll |-> 0, nSleep |-> 0, nNotRunning |-> 0,
     listed |-> FALSE, named |-> NoID,
     located |-> NoID, locatedUp |-> FALSE, created |-> NoID,
     stableDone |-> FALSE, stableErr |-> nil,
     cdone |-> FALSE, cerr |-> nil,
     nDiag |-> 0, diag |-> "none",
     nAttempt |-> 0, nReadySleep |-> 0, dumpedAfter |-> {},
     readyDone |-> FALSE, readyErr |-> nil,
     healthDone |-> FALSE, healthErr |-> nil,
     cancelAt |-> "none", pollsAfter |-> 0, sleepsAfter |-> 0,
     attemptsAfter |-> 0, readySleepsAfter |-> 0,
     brokerPort |-> "", webPort |-> ""]

NewCall(op) ==
    [NoCall EXCEPT !.op = op, !.done = FALSE,
                   !.preID = containerID, !.preRunning = isRunning]

\* hist observes the calls that completed before the current one:
\*   stage 1: the last of them was a Start that returned nil, and id is the
\*            identifier the handle held when it returned;
\*   stage 2: the last two were a Start and then a Cleanup that both returned
\*            nil, and id is the identifier held between them;
\*   stage 3: the last one was a Stop that made its stop call and returned
\*            nil, and id is the identifier held after it;
\*   stage 0: none of these.
\* and, over all calls so far,
\*   observed: what the engine last told or was last made to do about the
\*            identifier the handle holds: the state a successful inspection
\*            or listing reported, "running" after a successful start call,
\*            "stopped" after a successful stop call, "none" when the handle
\*            has learnt nothing about that identifier yet;
\*   tracked: the same, but counting the start call and the polls of
\*            createAndStartContainer only once its stability check has
\*            passed, and keeping what was learnt about an earlier identifier;
\*   resolved: a workload's Start has read all the host ports it builds its
\*            endpoints from;
\*   unlocked: a workload's Start, among the calls completed before the
\*            current one, has returned nil.
NoHist == [stage |-> 0, id |-> NoID, observed |-> "none", tracked |-> "none",
           resolved |-> FALSE, unlocked |-> FALSE]

StateWord(running) == IF running THEN "running" ELSE "stopped"

Observe(h, o) == [h EXCEPT !.observed = o]

Track(h, o) == [h EXCEPT !.observed = o, !.tracked = o]

\* what hist becomes when the next call begins (call is the one just completed)
BeginHist ==
    IF call.op \in {"Start", "WStart"} /\ call.err = nil
    THEN [hist EXCEPT !.stage = 1, !.id = containerID,
                      !.unlocked = @ \/ call.op = "WStart"]
    ELSE IF call.op = "Cleanup" /\ call.err = nil /\ hist.stage = 1
    THEN [hist EXCEPT !.stage = 2]
    ELSE IF call.op = "Stop" /\ call.err = nil /\ call.nStop = 1
    THEN [hist EXCEPT !.stage = 3, !.id = containerID]
    ELSE [hist EXCEPT !.stage = 0, !.id = NoID]

\* the call in progress returns e to the caller
Return(c, e) == [c EXCEPT !.done = TRUE, !.err = e]

\* a call that runs in one step: begin and return
Atomic(op, arg, e) == [NewCall(op) EXCEPT !.done = TRUE, !.err = e, !.arg = arg]

\* Container.Start returns e: to the caller, or to the workload's Start
StartReturns(c, e) ==
    IF c.op = "Start" THEN Return(c, e)
    ELSE [c EXCEPT !.cdone = TRUE, !.cerr = e]

StartReturnsPc(c) == IF c.op = "Start" THEN "idle" ELSE "ports"

-----------------------------------------------------------------------------
(* Diagnostics *)

DiagOutcomes == {"inspect failed, logs failed", "logs failed", "read failed",
                 "printed"}

\* PrintLogsOnFailure: out is what its engine calls did; nothing of the handle
\* changes and nothing is returned
PrintLogsOnFailure(c, id, out) ==
    [c EXCEPT !.nDiag = @ + 1,
              !.diag = IF id = NoID THEN "no container ID" ELSE out]

\* a.Container.PrintLogsOnFailure called by ActiveMQContainer.Start and its
\* readiness loop: the same, observed as having run, whatever its engine calls
\* did
ActiveMQ_PrintLogsOnFailure(c, id, out) ==
    [PrintLogsOnFailure(c, id, out) EXCEPT
        !.diag = IF id = NoID THEN @ ELSE "ran"]

-----------------------------------------------------------------------------
(* Container: the operations that run in one step *)

handleVars == <<containerID, isRunning>>

engineVars == <<engine, nextId>>

Idle == pc = "idle"

\* Stop_ marking the handle as not running although the stop call failed
Stop_clearsOnFailure(ok) ==
    IF containerID = NoID
    THEN [err |-> nil, isRunning |-> isRunning, engine |-> engine, nStop |-> 0]
    ELSE IF ~ok
    THEN [err |-> Wrap("failed to stop container", engineErr),
          isRunning |-> FALSE, engine |-> engine, nStop |-> 1]
    ELSE [err |-> nil, isRunning |-> FALSE,
          engine |-> [engine EXCEPT ![containerID].state =
                         IF @ = "running" THEN "exited" ELSE @],
          nStop |-> 1]

\* Stop_ refusing a handle that already says not running
Stop_notIdempotent(ok) ==
    IF containerID = NoID
    THEN [err |-> nil, isRunning |-> isRunning, engine |-> engine, nStop |-> 0]
    ELSE IF ~isRunning
    THEN [err |-> Errorf("container not running"), isRunning |-> isRunning,
          engine |-> engine, nStop |-> 0]
    ELSE IF ~ok
    THEN [err |-> Wrap("failed to stop container", engineErr),
          isRunning |-> isRunning, engine |-> engine, nStop |-> 1]
    ELSE [err |-> nil, isRunning |-> FALSE,
          engine |-> [engine EXCEPT ![containerID].state =
                         IF @ = "running" THEN "exited" ELSE @],
          nStop |-> 1]

\* Stop_ without the assignment to isRunning
Stop_keepsFlag(ok) ==
    IF containerID = NoID
    THEN [err |-> nil, isRunning |-> isRunning, engine |-> engine, nStop |-> 0]
    ELSE IF ~ok
    THEN [err |-> Wrap("failed to stop container", engineErr),
          isRunning |-> isRunning, engine |-> engine, nStop |-> 1]
    ELSE [err |-> nil, isRunning |-> isRunning,
          engine |-> [engine EXCEPT ![containerID].state =
                         IF @ = "running" THEN "exited" ELSE @],
          nStop |-> 1]

\* Container.Stop, given whether the engine's stop call succeeds:
\* [err, isRunning, engine, nStop]
Stop_(ok) ==
    IF containerID = NoID
    THEN [err |-> nil, isRunning |-> isRunning, engine |-> engine, nStop |-> 0]
    ELSE IF ~ok
    THEN [err |-> Wrap("failed to stop container", engineErr),
          isRunning |-> isRunning, engine |-> engine, nStop |-> 1]
    ELSE [err |-> nil, isRunning |-> FALSE,
          engine |-> [engine EXCEPT ![containerID].state =
                         IF @ = "running" THEN "exited" ELSE @],
          nStop |-> 1]

\* the engine cannot carry out a call on a container it does not have
CanSucceed(ok) == ok => (containerID = NoID \/ Exists(containerID))

Stop ==
    /\ Idle
    /\ \E ok \in BOOLEAN :
         /\ CanSucceed(ok)
         /\ LET r == Stop_(ok) IN
              /\ isRunning' = r.isRunning
              /\ engine' = r.engine
              /\ call' = [Atomic("Stop", "", r.err) EXCEPT !.nStop = r.nStop]
              /\ hist' = IF r.nStop = 1 /\ r.err = nil
                         THEN Track(BeginHist, "stopped") ELSE BeginHist
    /\ cancelled' = FALSE
    /\ UNCHANGED <<cfgVars, containerID, endpoints, nextId, pc, i>>

\* IsRunning answering from the flag when the flag says running
IsRunning_cached ==
    /\ Idle
    /\ \E ok \in BOOLEAN :
         /\ CanSucceed(ok)
         /\ IF containerID = NoID
            THEN /\ call' = Atomic("IsRunning", "", nil)
                 /\ hist' = BeginHist
                 /\ UNCHANGED isRunning
            ELSE IF isRunning
            THEN /\ call' = [Atomic("IsRunning", "", nil) EXCEPT !.retBool = TRUE]
                 /\ hist' = BeginHist
                 /\ UNCHANGED isRunning
            ELSE IF ~ok
            THEN /\ call' = [Atomic("IsRunning", "",
                                    Wrap("failed to inspect container", engineErr))
                               EXCEPT !.nStateInspect = 1]
                 /\ hist' = BeginHist
                 /\ UNCHANGED isRunning
            ELSE /\ isRunning' = Running(containerID)
                 /\ call' = [Atomic("IsRunning", "", nil)
                               EXCEPT !.nStateInspect = 1,
                                      !.retBool = isRunning']
                 /\ hist' = Track(BeginHist, StateWord(Running(containerID)))
    /\ cancelled' = FALSE
    /\ UNCHANGED <<cfgVars, containerID, endpoints, engineVars, pc, i>>

\* Container.IsRunning
IsRunning ==
    /\ Idle
    /\ \E ok \in BOOLEAN :
         /\ CanSucceed(ok)
         /\ IF containerID = NoID
            THEN /\ call' = Atomic("IsRunning", "", nil)
                 /\ hist' = BeginHist
                 /\ UNCHANGED isRunning
            ELSE IF ~ok
            THEN /\ call' = [Atomic("IsRunning", "",
                                    Wrap("failed to inspect container", engineErr))
                               EXCEPT !.nStateInspect = 1]
                 /\ hist' = BeginHist
                 /\ UNCHANGED isRunning
            ELSE /\ isRunning' = Running(containerID)
                 /\ call' = [Atomic("IsRunning", "", nil)
                               EXCEPT !.nStateInspect = 1,
                                      !.retBool = isRunning']
                 /\ hist' = Track(BeginHist, StateWord(Running(containerID)))
    /\ cancelled' = FALSE
    /\ UNCHANGED <<cfgVars, containerID, endpoints, engineVars, pc, i>>

\* GetPort_ taking the binding of whatever port is asked for
GetPort_anyPort(port, ok) ==
    IF containerID = NoID
    THEN [err |-> Errorf("container not started"), port |-> "", nInspect |-> 0]
    ELSE IF ~ok
    THEN [err |-> Wrap("failed to inspect container", engineErr), port |-> "",
          nInspect |-> 1]
    ELSE IF Running(containerID)
    THEN [err |-> nil, port |-> HostPortOf(containerID, port), nInspect |-> 1]
    ELSE [err |-> Errorf("no port mapping found for port " \o port),
          port |-> "", nInspect |-> 1]

\* Container.GetPort as a function: [err, port, nInspect], given whether the
\* inspection succeeds
GetPort_(port, ok) ==
    IF containerID = NoID
    THEN [err |-> Errorf("container not started"), port |-> "", nInspect |-> 0]
    ELSE IF ~ok
    THEN [err |-> Wrap("failed to inspect container", engineErr), port |-> "",
          nInspect |-> 1]
    ELSE LET portBindings == PortBindings(containerID, port) IN
         IF Len(portBindings) > 0
         THEN [err |-> nil, port |-> portBindings[1].HostPort, nInspect |-> 1]
         ELSE [err |-> Errorf("no port mapping found for port " \o port),
               port |-> "", nInspect |-> 1]

GetPort ==
    /\ Idle
    /\ \E port \in Ports \cup {UnmappedPort}, ok \in BOOLEAN :
         /\ CanSucceed(ok)
         /\ LET r == GetPort_(port, ok) IN
              call' = [Atomic("GetPort", port, r.err)
                         EXCEPT !.retStr = r.port, !.nPortInspect = r.nInspect]
    /\ hist' = BeginHist
    /\ cancelled' = FALSE
    /\ UNCHANGED <<cfgVars, handleVars, endpoints, engineVars, pc, i>>

\* Container.Logs
Logs ==
    /\ Idle
    /\ \E ok \in BOOLEAN :
         /\ CanSucceed(ok)
         /\ call' = Atomic("Logs", "",
                IF containerID = NoID THEN Errorf("container not started")
                ELSE IF ~ok THEN Wrap("failed to get container logs", engineErr)
                ELSE nil)
    /\ hist' = BeginHist
    /\ cancelled' = FALSE
    /\ UNCHANGED <<cfgVars, handleVars, endpoints, engineVars, pc, i>>

ExecOutcomes == {"create failed", "attach failed", "read failed",
                 "inspect failed", "exit code 1", "exit code 0"}

\* Container.Exec
Exec ==
    /\ Idle
    /\ \E out \in ExecOutcomes :
         /\ (out # "create failed") => (containerID = NoID \/ Running(containerID))
         /\ call' = Atomic("Exec", "",
                IF containerID = NoID THEN Errorf("container not started")
                ELSE CASE out = "create failed" ->
                            Wrap("failed to create exec instance", engineErr)
                       [] out = "attach failed" ->
                            Wrap("failed to attach to exec instance", engineErr)
                       [] out = "read failed" ->
                            Wrap("failed to read exec output", engineErr)
                       [] out = "inspect failed" ->
                            Wrap("failed to inspect exec result", engineErr)
                       [] out = "exit code 1" ->
                            Errorf("command failed with exit code")
                       [] OTHER -> nil)
    /\ hist' = BeginHist
    /\ cancelled' = FALSE
    /\ UNCHANGED <<cfgVars, handleVars, endpoints, engineVars, pc, i>>

\* Cleanup_ clearing the identifier whether or not the remove call succeeded
Cleanup_clearsAnyway(stopOk, removeOk) ==
    LET r == Stop_(stopOk) IN
    IF containerID = NoID
    THEN [err |-> nil, containerID |-> containerID, isRunning |-> isRunning,
          engine |-> engine, nStop |-> 0, nRemove |-> 0]
    ELSE IF reuse
    THEN [err |-> r.err, containerID |-> containerID, isRunning |-> r.isRunning,
          engine |-> r.engine, nStop |-> r.nStop, nRemove |-> 0]
    ELSE IF ~removeOk
    THEN [err |-> Wrap("failed to remove container", engineErr),
          containerID |-> NoID, isRunning |-> r.isRunning,
          engine |-> r.engine, nStop |-> r.nStop, nRemove |-> 1]
    ELSE [err |-> nil, containerID |-> NoID, isRunning |-> r.isRunning,
          engine |-> [r.engine EXCEPT ![containerID] = Absent],
          nStop |-> r.nStop, nRemove |-> 1]

\* Container.Cleanup, given whether the engine's stop and remove calls succeed:
\* [err, containerID, isRunning, engine, nStop, nRemove]
Cleanup_(stopOk, removeOk) ==
    LET r == Stop_(stopOk) IN
    IF containerID = NoID
    THEN [err |-> nil, containerID |-> containerID, isRunning |-> isRunning,
          engine |-> engine, nStop |-> 0, nRemove |-> 0]
    ELSE IF reuse
    THEN [err |-> r.err, containerID |-> containerID, isRunning |-> r.isRunning,
          engine |-> r.engine, nStop |-> r.nStop, nRemove |-> 0]
    ELSE IF ~removeOk
    THEN [err |-> Wrap("failed to remove container", engineErr),
          containerID |-> containerID, isRunning |-> r.isRunning,
          engine |-> r.engine, nStop |-> r.nStop, nRemove |-> 1]
    ELSE [err |-> nil, containerID |-> NoID, isRunning |-> r.isRunning,
          engine |-> [r.engine EXCEPT ![containerID] = Absent],
          nStop |-> r.nStop, nRemove |-> 1]

Cleanup ==
    /\ Idle
    /\ \E stopOk \in BOOLEAN, removeOk \in BOOLEAN :
         /\ CanSucceed(stopOk)
         /\ CanSucceed(removeOk)
         /\ LET r == Cleanup_(stopOk, removeOk)
                h == IF r.nStop = 1 /\ stopOk
                     THEN Track(BeginHist, "stopped") ELSE BeginHist
            IN /\ containerID' = r.containerID
               /\ isRunning' = r.isRunning
               /\ engine' = r.engine
               /\ call' = [Atomic("Cleanup", "", r.err)
                             EXCEPT !.nStop = r.nStop, !.nRemove = r.nRemove]
               /\ hist' = IF r.containerID # containerID
                          THEN Observe(h, "none") ELSE h
    /\ cancelled' = FALSE
    /\ UNCHANGED <<cfgVars, endpoints, nextId, pc, i>>

-----------------------------------------------------------------------------
(* Container.Start *)

\* stabilityPeriod and checkInterval of waitForStableState, in milliseconds
stabilityPeriod == 3000

checkInterval == 500

\* the loop of waitForStableState written with i <= maxChecks
maxChecks_inclusive == stabilityPeriod \div checkInterval + 1

maxChecks == stabilityPeriod \div checkInterval

Min(S) == CHOOSE x \in S : \A y \in S : x <= y

\* findAndReuseContainer, given the error of the listing call:
\* [err, containerID, isRunning]
\* findAndReuseContainer taking the first container whose name begins with the
\* configured name
findAndReuseContainer_prefix(listErr) ==
    IF listErr # nil
    THEN [err |-> Wrap("failed to list containers", listErr),
          containerID |-> containerID, isRunning |-> isRunning]
    ELSE LET containers == ContainerList
             hits == {k \in 1..Len(containers) :
                        \E j \in 1..Len(containers[k].Names) :
                           HasPrefix(TrimPrefix(containers[k].Names[j], <<"/">>),
                                     cfgName)}
         IN IF hits = {}
            THEN [err |-> Errorf("container with name not found"),
                  containerID |-> containerID, isRunning |-> isRunning]
            ELSE LET ctr == containers[Min(hits)] IN
                 [err |-> nil, containerID |-> ctr.ID,
                  isRunning |-> Contains(ctr.Status, <<"U", "p">>)]

\* findAndReuseContainer looking for "up" in the status text
findAndReuseContainer_lowercase(listErr) ==
    IF listErr # nil
    THEN [err |-> Wrap("failed to list containers", listErr),
          containerID |-> containerID, isRunning |-> isRunning]
    ELSE LET containers == ContainerList
             hits == {k \in 1..Len(containers) :
                        \E j \in 1..Len(containers[k].Names) :
                           TrimPrefix(containers[k].Names[j], <<"/">>) = cfgName}
         IN IF hits = {}
            THEN [err |-> Errorf("container with name not found"),
                  containerID |-> containerID, isRunning |-> isRunning]
            ELSE LET ctr == containers[Min(hits)] IN
                 [err |-> nil, containerID |-> ctr.ID,
                  isRunning |-> Contains(ctr.Status, <<"u", "p">>)]

findAndReuseContainer(listErr) ==
    IF listErr # nil
    THEN [err |-> Wrap("failed to list containers", listErr),
          containerID |-> containerID, isRunning |-> isRunning]
    ELSE LET containers == ContainerList
             hits == {k \in 1..Len(containers) :
                        \E j \in 1..Len(containers[k].Names) :
                           TrimPrefix(containers[k].Names[j], <<"/">>) = cfgName}
         IN IF hits = {}
            THEN [err |-> Errorf("container with name not found"),
                  containerID |-> containerID, isRunning |-> isRunning]
            ELSE LET ctr == containers[Min(hits)] IN
                 [err |-> nil, containerID |-> ctr.ID,
                  isRunning |-> Contains(ctr.Status, <<"U", "p">>)]

\* the container the engine has under the configured name
NamedContainer == NamedAs(cfgName)

\* the engine cannot start or inspect a container it does not have
Carries(ok) == ok => Exists(containerID)

\* Container.Start, entry: the call begins
Start ==
    /\ Idle
    /\ kind = "generic"
    /\ call' = NewCall("Start")
    /\ hist' = BeginHist
    /\ cancelled' = FALSE
    /\ pc' = "start"
    /\ UNCHANGED <<cfgVars, handleVars, endpoints, engineVars, i>>

\* Start returning the error of a lookup that failed
Start_reuse_hardFail ==
    /\ pc = "start"
    /\ IF reuse
       THEN \E listOk \in BOOLEAN :
              LET r == findAndReuseContainer(IF listOk THEN nil ELSE engineErr) IN
                /\ containerID' = r.containerID
                /\ isRunning' = r.isRunning
                /\ hist' = IF r.err = nil
                           THEN Track(hist, StateWord(Running(r.containerID)))
                           ELSE hist
                /\ LET c == [call EXCEPT
                              !.nList = @ + 1,
                              !.listed = listOk,
                              !.named = NamedContainer,
                              !.located = IF r.err = nil THEN r.containerID ELSE NoID,
                              !.locatedUp = r.err = nil /\ r.isRunning]
                   IN IF r.err # nil
                      THEN /\ call' = StartReturns(c, r.err)
                           /\ pc' = StartReturnsPc(call)
                      ELSE /\ call' = c
                           /\ pc' = IF r.containerID # NoID THEN "ensure" ELSE "create"
       ELSE /\ pc' = "create"
            /\ UNCHANGED <<handleVars, call, hist>>
    /\ UNCHANGED <<cfgVars, endpoints, engineVars, cancelled, i>>

\* Container.Start, its body up to the call of ensureContainerRunning or
\* createAndStartContainer
Start_reuse ==
    /\ pc = "start"
    /\ IF reuse
       THEN \E listOk \in BOOLEAN :
              LET r == findAndReuseContainer(IF listOk THEN nil ELSE engineErr) IN
                /\ containerID' = r.containerID
                /\ isRunning' = r.isRunning
                /\ call' = [call EXCEPT
                              !.nList = @ + 1,
                              !.listed = listOk,
                              !.named = NamedContainer,
                              !.located = IF r.err = nil THEN r.containerID ELSE NoID,
                              !.locatedUp = r.err = nil /\ r.isRunning]
                /\ hist' = IF r.err = nil
                           THEN Track(hist, StateWord(Running(r.containerID)))
                           ELSE hist
                /\ pc' = IF r.err = nil /\ r.containerID # NoID
                         THEN "ensure" ELSE "create"
       ELSE /\ pc' = "create"
            /\ UNCHANGED <<handleVars, call, hist>>
    /\ UNCHANGED <<cfgVars, endpoints, engineVars, cancelled, i>>

\* ensureContainerRunning without the assignment to isRunning
ensureContainerRunning_noFlag ==
    /\ pc = "ensure"
    /\ IF isRunning
       THEN /\ call' = StartReturns(call, nil)
            /\ UNCHANGED <<isRunning, engine, hist>>
       ELSE \E ok \in BOOLEAN :
              /\ Carries(ok)
              /\ IF ~ok
                 THEN /\ call' = StartReturns([call EXCEPT !.nStart = @ + 1],
                                   Wrap("failed to start existing container", engineErr))
                      /\ UNCHANGED <<isRunning, engine, hist>>
                 ELSE /\ engine' = [engine EXCEPT ![containerID].state = "running"]
                      /\ UNCHANGED isRunning
                      /\ call' = StartReturns([call EXCEPT !.nStart = @ + 1], nil)
                      /\ hist' = Track(hist, "running")
    /\ pc' = StartReturnsPc(call)
    /\ UNCHANGED <<cfgVars, containerID, endpoints, nextId, cancelled, i>>

\* ensureContainerRunning, and Start returning its result
ensureContainerRunning ==
    /\ pc = "ensure"
    /\ IF isRunning
       THEN /\ call' = StartReturns(call, nil)
            /\ UNCHANGED <<isRunning, engine, hist>>
       ELSE \E ok \in BOOLEAN :
              /\ Carries(ok)
              /\ IF ~ok
                 THEN /\ call' = StartReturns([call EXCEPT !.nStart = @ + 1],
                                   Wrap("failed to start existing container", engineErr))
                      /\ UNCHANGED <<isRunning, engine, hist>>
                 ELSE /\ engine' = [engine EXCEPT ![containerID].state = "running"]
                      /\ isRunning' = TRUE
                      /\ call' = StartReturns([call EXCEPT !.nStart = @ + 1], nil)
                      /\ hist' = Track(hist, "running")
    /\ pc' = StartReturnsPc(call)
    /\ UNCHANGED <<cfgVars, containerID, endpoints, nextId, cancelled, i>>

\* the name the engine registers for a container created for this handle
CreatedName == IF cfgName = << >> THEN AutoName ELSE cfgName

\* whether the engine can carry out the create call
CanCreate == nextId <= MaxContainers /\ (cfgName = << >> \/ NameFree(cfgName))

\* createAndStartContainer storing resp.ID before it looks at the error
createAndStartContainer_storesEarly ==
    /\ pc = "create"
    /\ \E imagePresent \in BOOLEAN, pullOk \in BOOLEAN, createOk \in BOOLEAN :
         /\ createOk => CanCreate
         /\ LET c1 == [call EXCEPT !.nImageInspect = @ + 1,
                                   !.nPull = IF imagePresent THEN @ ELSE @ + 1]
                c2 == [c1 EXCEPT !.nCreate = @ + 1]
            IN IF ~imagePresent /\ ~pullOk
               THEN /\ call' = StartReturns(c1, Wrap("failed to pull image", engineErr))
                    /\ pc' = StartReturnsPc(call)
                    /\ UNCHANGED <<containerID, engineVars, hist>>
               ELSE IF ~createOk
               THEN /\ call' = StartReturns(c2,
                                   Wrap("failed to create container", engineErr))
                    /\ pc' = StartReturnsPc(call)
                    /\ containerID' = NoID
                    /\ UNCHANGED <<engineVars, hist>>
               ELSE /\ containerID' = nextId
                    /\ hist' = Observe(hist, "none")
                    /\ engine' = [engine EXCEPT ![nextId] =
                                     [state |-> "created", name |-> CreatedName]]
                    /\ nextId' = nextId + 1
                    /\ call' = [c2 EXCEPT !.created = nextId]
                    /\ pc' = "run"
    /\ UNCHANGED <<cfgVars, isRunning, endpoints, cancelled, i>>

\* createAndStartContainer without the assignment of the new identifier
createAndStartContainer_keepsID ==
    /\ pc = "create"
    /\ \E imagePresent \in BOOLEAN, pullOk \in BOOLEAN, createOk \in BOOLEAN :
         /\ createOk => CanCreate
         /\ LET c1 == [call EXCEPT !.nImageInspect = @ + 1,
                                   !.nPull = IF imagePresent THEN @ ELSE @ + 1]
                c2 == [c1 EXCEPT !.nCreate = @ + 1]
            IN IF ~imagePresent /\ ~pullOk
               THEN /\ call' = StartReturns(c1, Wrap("failed to pull image", engineErr))
                    /\ pc' = StartReturnsPc(call)
                    /\ UNCHANGED <<containerID, engineVars, hist>>
               ELSE IF ~createOk
               THEN /\ call' = StartReturns(c2,
                                   Wrap("failed to create container", engineErr))
                    /\ pc' = StartReturnsPc(call)
                    /\ UNCHANGED <<containerID, engineVars, hist>>
               ELSE /\ UNCHANGED containerID
                    /\ hist' = Observe(hist, "none")
                    /\ engine' = [engine EXCEPT ![nextId] =
                                     [state |-> "created", name |-> CreatedName]]
                    /\ nextId' = nextId + 1
                    /\ call' = [c2 EXCEPT !.created = nextId]
                    /\ pc' = "run"
    /\ UNCHANGED <<cfgVars, isRunning, endpoints, cancelled, i>>

\* createAndStartContainer up to and including the create call
createAndStartContainer ==
    /\ pc = "create"
    /\ \E imagePresent \in BOOLEAN, pullOk \in BOOLEAN, createOk \in BOOLEAN :
         /\ createOk => CanCreate
         /\ LET c1 == [call EXCEPT !.nImageInspect = @ + 1,
                                   !.nPull = IF imagePresent THEN @ ELSE @ + 1]
                c2 == [c1 EXCEPT !.nCreate = @ + 1]
            IN IF ~imagePresent /\ ~pullOk
               THEN /\ call' = StartReturns(c1, Wrap("failed to pull image", engineErr))
                    /\ pc' = StartReturnsPc(call)
                    /\ UNCHANGED <<containerID, engineVars, hist>>
               ELSE IF ~createOk
               THEN /\ call' = StartReturns(c2,
                                   Wrap("failed to create container", engineErr))
                    /\ pc' = StartReturnsPc(call)
                    /\ UNCHANGED <<containerID, engineVars, hist>>
               ELSE /\ containerID' = nextId
                    /\ hist' = Observe(hist, "none")
                    /\ engine' = [engine EXCEPT ![nextId] =
                                     [state |-> "created", name |-> CreatedName]]
                    /\ nextId' = nextId + 1
                    /\ call' = [c2 EXCEPT !.created = nextId]
                    /\ pc' = "run"
    /\ UNCHANGED <<cfgVars, isRunning, endpoints, cancelled, i>>

\* createAndStartContainer returning the error of the diagnostics when they
\* could not fetch the logs
createAndStartContainer_start_masked ==
    /\ pc = "run"
    /\ \E ok \in BOOLEAN, out \in DiagOutcomes :
         /\ Carries(ok)
         /\ ok => out = "printed"
         /\ IF ~ok
            THEN /\ call' = StartReturns(
                       PrintLogsOnFailure([call EXCEPT !.nStart = @ + 1],
                                          containerID, out),
                       IF out \in {"printed", "read failed"}
                       THEN Wrap("failed to start container", engineErr)
                       ELSE Wrap("failed to get container logs", engineErr))
                 /\ pc' = StartReturnsPc(call)
                 /\ UNCHANGED <<engine, i, hist>>
            ELSE /\ engine' = [engine EXCEPT ![containerID].state = "running"]
                 /\ call' = [call EXCEPT !.nStart = @ + 1]
                 /\ hist' = Observe(hist, "running")
                 /\ pc' = "stable"
                 /\ i' = 0
    /\ UNCHANGED <<cfgVars, handleVars, endpoints, nextId, cancelled>>

\* createAndStartContainer: the start call on the created container
createAndStartContainer_start ==
    /\ pc = "run"
    /\ \E ok \in BOOLEAN, out \in DiagOutcomes :
         /\ Carries(ok)
         /\ ok => out = "printed"
         /\ IF ~ok
            THEN /\ call' = StartReturns(
                       PrintLogsOnFailure([call EXCEPT !.nStart = @ + 1],
                                          containerID, out),
                       Wrap("failed to start container", engineErr))
                 /\ pc' = StartReturnsPc(call)
                 /\ UNCHANGED <<engine, i, hist>>
            ELSE /\ engine' = [engine EXCEPT ![containerID].state = "running"]
                 /\ call' = [call EXCEPT !.nStart = @ + 1]
                 /\ hist' = Observe(hist, "running")
                 /\ pc' = "stable"
                 /\ i' = 0
    /\ UNCHANGED <<cfgVars, handleVars, endpoints, nextId, cancelled>>

\* waitForStableState returns e to createAndStartContainer, which returns
createAndStartContainer_return(c, e) ==
    StartReturns([c EXCEPT !.stableDone = TRUE, !.stableErr = e],
                 IF e # nil
                 THEN Wrap("container failed to maintain stable state", e)
                 ELSE nil)

\* waitForStableState: the loop condition and the select on ctx.Done()
waitForStableState ==
    /\ pc = "stable"
    /\ IF i >= maxChecks
       THEN /\ isRunning' = TRUE
            /\ call' = createAndStartContainer_return(call, nil)
            /\ hist' = [hist EXCEPT !.tracked = "running"]
            /\ pc' = StartReturnsPc(call)
       ELSE IF cancelled
       THEN /\ call' = createAndStartContainer_return(call, ctxErr)
            /\ pc' = StartReturnsPc(call)
            /\ UNCHANGED <<isRunning, hist>>
       ELSE /\ pc' = "inspect"
            /\ UNCHANGED <<isRunning, call, hist>>
    /\ UNCHANGED <<cfgVars, containerID, endpoints, engineVars, cancelled, i>>

\* waitForStableState polling on after a report of a container not running
waitForStableState_inspect_retries ==
    /\ pc = "inspect"
    /\ \E ok \in BOOLEAN, out \in DiagOutcomes :
         /\ Carries(ok)
         /\ ok => out = "printed"
         /\ LET c == [call EXCEPT !.nPoll = @ + 1,
                                  !.pollsAfter = IF cancelled THEN @ + 1 ELSE @] IN
            IF ~ok
            THEN /\ call' = createAndStartContainer_return(
                              PrintLogsOnFailure(c, containerID, out),
                              Wrap("failed to inspect container", engineErr))
                 /\ pc' = StartReturnsPc(call)
                 /\ UNCHANGED hist
            ELSE IF ~Running(containerID)
            THEN /\ call' = [c EXCEPT !.nNotRunning = @ + 1]
                 /\ pc' = "sleep"
                 /\ hist' = Observe(hist, "stopped")
            ELSE /\ call' = c
                 /\ pc' = "sleep"
                 /\ hist' = Observe(hist, "running")
    /\ UNCHANGED <<cfgVars, handleVars, endpoints, engineVars, cancelled, i>>

\* waitForStableState: the inspection of one iteration
waitForStableState_inspect ==
    /\ pc = "inspect"
    /\ \E ok \in BOOLEAN, out \in DiagOutcomes :
         /\ Carries(ok)
         /\ (ok /\ Running(containerID)) => out = "printed"
         /\ LET c == [call EXCEPT !.nPoll = @ + 1,
                                  !.pollsAfter = IF cancelled THEN @ + 1 ELSE @] IN
            IF ~ok
            THEN /\ call' = createAndStartContainer_return(
                              PrintLogsOnFailure(c, containerID, out),
                              Wrap("failed to inspect container", engineErr))
                 /\ pc' = StartReturnsPc(call)
                 /\ UNCHANGED hist
            ELSE IF ~Running(containerID)
            THEN /\ call' = createAndStartContainer_return(
                              PrintLogsOnFailure([c EXCEPT !.nNotRunning = @ + 1],
                                                 containerID, out),
                              Errorf("container exited with status"))
                 /\ pc' = StartReturnsPc(call)
                 /\ hist' = Observe(hist, "stopped")
            ELSE /\ call' = c
                 /\ pc' = "sleep"
                 /\ hist' = Observe(hist, "running")
    /\ UNCHANGED <<cfgVars, handleVars, endpoints, engineVars, cancelled, i>>

\* waitForStableState: time.Sleep(checkInterval) and the loop's i++
waitForStableState_sleep ==
    /\ pc = "sleep"
    /\ call' = [call EXCEPT !.nSleep = @ + 1,
                            !.sleepsAfter = IF cancelled THEN @ + 1 ELSE @]
    /\ i' = i + 1
    /\ pc' = "stable"
    /\ UNCHANGED <<cfgVars, handleVars, endpoints, engineVars, cancelled, hist>>

-----------------------------------------------------------------------------
(* The workloads: SQLServerContainer and ActiveMQContainer *)

\* maxRetries of SQLServerContainer.waitForReady
SQLServer_maxRetries == 30

\* maxRetries of ActiveMQContainer.waitForReady
ActiveMQ_maxRetries == 60

maxRetries == IF kind = "amq" THEN ActiveMQ_maxRetries ELSE SQLServer_maxRetries

\* the password the SQL Server handle was built with
password == "Passw0rd"

\* what an attempt to reach SQL Server can come to
SQLOutcomes == {"open failed", "ping failed", "query failed", "result 0", "result 1"}

\* what the web console can answer (0: the request itself failed)
HTTPStatuses == {0, 200, 302, 401, 404, 503}

\* what ListQueues of the ActiveMQ client can come to
ListOutcomes == {"client nil", "list failed", "listed"}

\* SQLServerContainer.testConnection
SQLServer_testConnection(out) ==
    IF out = "open failed" THEN FALSE
    ELSE IF out = "ping failed" THEN FALSE
    ELSE IF out = "query failed" THEN FALSE
    ELSE out = "result 1"

\* ActiveMQContainer.testConnection taking a redirect for a failure
ActiveMQ_testConnection_noRedirect(status) ==
    IF endpoints.webConsoleURL = "" THEN FALSE
    ELSE IF status = 0 THEN FALSE
    ELSE status = 401 \/ status = 200

\* ActiveMQContainer.testConnection
ActiveMQ_testConnection(status) ==
    IF endpoints.webConsoleURL = "" THEN FALSE
    ELSE IF status = 0 THEN FALSE
    ELSE status = 401 \/ status = 200 \/ status = 302

\* SQLServerContainer.HealthCheck
SQLServer_HealthCheck(out) ==
    IF endpoints.connectionString = ""
    THEN Errorf("connection string not set - container may not be started")
    ELSE IF out = "open failed"
    THEN Wrap("health check failed - cannot open database", engineErr)
    ELSE IF out = "ping failed"
    THEN Wrap("health check failed - ping failed", engineErr)
    ELSE IF out = "query failed"
    THEN Wrap("health check failed - query failed", engineErr)
    ELSE IF out # "result 1"
    THEN Errorf("health check failed - unexpected query result")
    ELSE nil

\* ActiveMQContainer.HealthCheck
ActiveMQ_HealthCheck(status, list) ==
    IF endpoints.webConsoleURL = ""
    THEN Errorf("web console URL not set - container may not be started")
    ELSE IF status = 0
    THEN Wrap("health check failed - web console request failed", engineErr)
    ELSE IF status # 401 /\ status # 200 /\ status # 302
    THEN Errorf("health check failed - web console returned unexpected status")
    ELSE IF list = "client nil"
    THEN Errorf("health check failed - cannot create ActiveMQ client")
    ELSE IF list = "list failed"
    THEN Wrap("health check failed - cannot list queues", engineErr)
    ELSE nil

\* SQLServerContainer.Start / ActiveMQContainer.Start, entry: the call begins
\* with the call of Container.Start
WorkloadStart(k) ==
    /\ Idle
    /\ kind = k
    /\ call' = NewCall("WStart")
    /\ hist' = BeginHist
    /\ cancelled' = FALSE
    /\ pc' = "start"
    /\ UNCHANGED <<cfgVars, handleVars, endpoints, engineVars, i>>

SQLServer_Start == WorkloadStart("sql")

ActiveMQ_Start == WorkloadStart("amq")

\* SQLServerContainer.Start building the connection string before it knows
\* whether the port lookup succeeded
SQLServer_Start_ports_setsEarly ==
    /\ pc = "ports"
    /\ kind = "sql"
    /\ IF call.cerr # nil
       THEN /\ call' = Return(call, call.cerr)
            /\ pc' = "idle"
            /\ UNCHANGED <<endpoints, i, hist>>
       ELSE \E ok \in BOOLEAN :
              /\ CanSucceed(ok)
              /\ LET r == GetPort_("1433", ok) IN
                 /\ endpoints' = [endpoints EXCEPT !.connectionString =
                            "server=localhost;port=" \o r.port
                              \o ";database=master;user id=sa;password=" \o password
                              \o ";encrypt=disable"]
                 /\ IF r.err # nil
                    THEN /\ call' = Return(call,
                                   Wrap("failed to get SQL Server port", r.err))
                         /\ pc' = "idle"
                         /\ UNCHANGED <<i, hist>>
                    ELSE /\ pc' = "ready"
                         /\ i' = 0
                         /\ hist' = [hist EXCEPT !.resolved = TRUE]
                         /\ UNCHANGED call
    /\ UNCHANGED <<cfgVars, handleVars, engineVars, cancelled>>

\* SQLServerContainer.Start after Container.Start returned: the port lookup and
\* the connection string
SQLServer_Start_ports ==
    /\ pc = "ports"
    /\ kind = "sql"
    /\ IF call.cerr # nil
       THEN /\ call' = Return(call, call.cerr)
            /\ pc' = "idle"
            /\ UNCHANGED <<endpoints, i, hist>>
       ELSE \E ok \in BOOLEAN :
              /\ CanSucceed(ok)
              /\ LET r == GetPort_("1433", ok) IN
                 IF r.err # nil
                 THEN /\ call' = Return(call,
                                   Wrap("failed to get SQL Server port", r.err))
                      /\ pc' = "idle"
                      /\ UNCHANGED <<endpoints, i, hist>>
                 ELSE /\ endpoints' = [endpoints EXCEPT !.connectionString =
                            "server=localhost;port=" \o r.port
                              \o ";database=master;user id=sa;password=" \o password
                              \o ";encrypt=disable"]
                      /\ pc' = "ready"
                      /\ i' = 0
                      /\ hist' = [hist EXCEPT !.resolved = TRUE]
                      /\ UNCHANGED call
    /\ UNCHANGED <<cfgVars, handleVars, engineVars, cancelled>>

\* ActiveMQContainer.Start after Container.Start returned: its result, and the
\* lookup of the broker port
ActiveMQ_Start_ports ==
    /\ pc = "ports"
    /\ kind = "amq"
    /\ IF call.cerr # nil
       THEN /\ \E out \in DiagOutcomes :
                 call' = Return(ActiveMQ_PrintLogsOnFailure(call, containerID, out),
                                Wrap("failed to start ActiveMQ container", call.cerr))
            /\ pc' = "idle"
       ELSE \E ok \in BOOLEAN :
              /\ CanSucceed(ok)
              /\ LET r == GetPort_("61616", ok) IN
                 IF r.err # nil
                 THEN /\ call' = Return(call,
                                 Wrap("failed to get ActiveMQ broker port", r.err))
                      /\ pc' = "idle"
                 ELSE /\ call' = [call EXCEPT !.brokerPort = r.port]
                      /\ pc' = "webPort"
    /\ UNCHANGED <<cfgVars, handleVars, endpoints, engineVars, cancelled, i, hist>>

\* ActiveMQContainer.Start: the lookup of the web console port
ActiveMQ_Start_ports_web ==
    /\ pc = "webPort"
    /\ \E ok \in BOOLEAN :
         /\ CanSucceed(ok)
         /\ LET r == GetPort_("8161", ok) IN
            IF r.err # nil
            THEN /\ call' = Return(call,
                            Wrap("failed to get ActiveMQ web console port", r.err))
                 /\ pc' = "idle"
            ELSE /\ call' = [call EXCEPT !.webPort = r.port]
                 /\ pc' = "jmxPort"
    /\ UNCHANGED <<cfgVars, handleVars, endpoints, engineVars, cancelled, i, hist>>

\* ActiveMQContainer.Start building the web console URL from the JMX port
ActiveMQ_Start_ports_jmx_swapped ==
    /\ pc = "jmxPort"
    /\ \E ok \in BOOLEAN :
         /\ CanSucceed(ok)
         /\ LET r == GetPort_("1099", ok) IN
            IF r.err # nil
            THEN /\ call' = Return(call,
                            Wrap("failed to get ActiveMQ JMX port", r.err))
                 /\ pc' = "idle"
                 /\ UNCHANGED <<endpoints, i, hist>>
            ELSE /\ endpoints' = [endpoints EXCEPT
                        !.brokerURL = "tcp://localhost:" \o call.brokerPort,
                        !.webConsoleURL = "http://localhost:" \o r.port]
                 /\ pc' = "ready"
                 /\ i' = 0
                 /\ hist' = [hist EXCEPT !.resolved = TRUE]
                 /\ UNCHANGED call
    /\ UNCHANGED <<cfgVars, handleVars, engineVars, cancelled>>

\* ActiveMQContainer.Start: the lookup of the JMX port, and the two URLs
ActiveMQ_Start_ports_jmx ==
    /\ pc = "jmxPort"
    /\ \E ok \in BOOLEAN :
         /\ CanSucceed(ok)
         /\ LET r == GetPort_("1099", ok) IN
            IF r.err # nil
            THEN /\ call' = Return(call,
                            Wrap("failed to get ActiveMQ JMX port", r.err))
                 /\ pc' = "idle"
                 /\ UNCHANGED <<endpoints, i, hist>>
            ELSE /\ endpoints' = [endpoints EXCEPT
                        !.brokerURL = "tcp://localhost:" \o call.brokerPort,
                        !.webConsoleURL = "http://localhost:" \o call.webPort]
                 /\ pc' = "ready"
                 /\ i' = 0
                 /\ hist' = [hist EXCEPT !.resolved = TRUE]
                 /\ UNCHANGED call
    /\ UNCHANGED <<cfgVars, handleVars, engineVars, cancelled>>

\* the error waitForReady returns when its attempts are used up
Exhausted ==
    Errorf((IF kind = "amq" THEN "ActiveMQ" ELSE "SQL Server")
           \o " failed to become ready after " \o ToString(maxRetries) \o " attempts")

\* SQLServerContainer.waitForReady returns e, and Start returns it
SQLServer_waitForReady_return(c, e) ==
    Return([c EXCEPT !.readyDone = TRUE, !.readyErr = e], e)

\* SQLServerContainer.waitForReady: the loop condition and the select on ctx.Done()
SQLServer_waitForReady ==
    /\ pc = "ready"
    /\ kind = "sql"
    /\ IF i >= maxRetries
       THEN /\ call' = SQLServer_waitForReady_return(call, Exhausted)
            /\ pc' = "idle"
       ELSE IF cancelled
       THEN /\ call' = SQLServer_waitForReady_return(call, ctxErr)
            /\ pc' = "idle"
       ELSE /\ pc' = "probe"
            /\ UNCHANGED call
    /\ UNCHANGED <<cfgVars, handleVars, endpoints, engineVars, cancelled, i, hist>>

\* SQLServerContainer.waitForReady sleeping after the last attempt too
SQLServer_waitForReady_probe_alwaysSleeps ==
    /\ pc = "probe"
    /\ kind = "sql"
    /\ \E out \in SQLOutcomes :
         LET c == [call EXCEPT !.nAttempt = @ + 1,
                               !.attemptsAfter = IF cancelled THEN @ + 1 ELSE @] IN
         IF SQLServer_testConnection(out)
         THEN /\ call' = SQLServer_waitForReady_return(c, nil)
              /\ pc' = "idle"
         ELSE /\ call' = c
              /\ pc' = "nap"
    /\ UNCHANGED <<cfgVars, handleVars, endpoints, engineVars, cancelled, i, hist>>

\* SQLServerContainer.waitForReady: testConnection of one iteration; after the
\* last one the loop goes on to its condition without sleeping
SQLServer_waitForReady_probe ==
    /\ pc = "probe"
    /\ kind = "sql"
    /\ \E out \in SQLOutcomes :
         LET c == [call EXCEPT !.nAttempt = @ + 1,
                               !.attemptsAfter = IF cancelled THEN @ + 1 ELSE @] IN
         IF SQLServer_testConnection(out)
         THEN /\ call' = SQLServer_waitForReady_return(c, nil)
              /\ pc' = "idle"
              /\ UNCHANGED i
         ELSE IF i < maxRetries - 1
         THEN /\ call' = c
              /\ pc' = "nap"
              /\ UNCHANGED i
         ELSE /\ call' = c
              /\ pc' = "ready"
              /\ i' = i + 1
    /\ UNCHANGED <<cfgVars, handleVars, endpoints, engineVars, cancelled, hist>>

\* waitForReady sleeping without counting the iteration
waitForReady_sleep_noIncrement ==
    /\ pc = "nap"
    /\ call.nAttempt <= maxRetries
    /\ call' = [call EXCEPT !.nReadySleep = @ + 1,
                            !.readySleepsAfter = IF cancelled THEN @ + 1 ELSE @]
    /\ pc' = "ready"
    /\ UNCHANGED <<cfgVars, handleVars, endpoints, engineVars, cancelled, hist, i>>

\* waitForReady (both workloads): time.Sleep(retryDelay) and the loop's i++
waitForReady_sleep ==
    /\ pc = "nap"
    /\ call' = [call EXCEPT !.nReadySleep = @ + 1,
                            !.readySleepsAfter = IF cancelled THEN @ + 1 ELSE @]
    /\ i' = i + 1
    /\ pc' = "ready"
    /\ UNCHANGED <<cfgVars, handleVars, endpoints, engineVars, cancelled, hist>>

\* ActiveMQContainer.waitForReady returns e to Start
ActiveMQ_waitForReady_return(c, e) == [c EXCEPT !.readyDone = TRUE, !.readyErr = e]

\* ActiveMQContainer.waitForReady: the loop condition and the select on
\* ctx.Done(); Start returns a failure after printing the logs
ActiveMQ_waitForReady ==
    /\ pc = "ready"
    /\ kind = "amq"
    /\ IF i >= maxRetries
       THEN /\ \E out \in DiagOutcomes :
                 call' = Return(ActiveMQ_PrintLogsOnFailure(
                                  ActiveMQ_waitForReady_return(
                                    ActiveMQ_PrintLogsOnFailure(call, containerID, out),
                                    Exhausted),
                                  containerID, out),
                                Exhausted)
            /\ pc' = "idle"
       ELSE IF cancelled
       THEN /\ \E out \in DiagOutcomes :
                 call' = Return(ActiveMQ_PrintLogsOnFailure(
                                  ActiveMQ_waitForReady_return(call, ctxErr),
                                  containerID, out),
                                ctxErr)
            /\ pc' = "idle"
       ELSE /\ pc' = "probe"
            /\ UNCHANGED call
    /\ UNCHANGED <<cfgVars, handleVars, endpoints, engineVars, cancelled, i, hist>>

\* ActiveMQContainer.waitForReady dumping the logs when the loop variable, not
\* the number of the attempt, is a multiple of ten
ActiveMQ_waitForReady_probe_offByOne ==
    /\ pc = "probe"
    /\ kind = "amq"
    /\ \E status \in HTTPStatuses, out \in DiagOutcomes :
         LET c == [call EXCEPT !.nAttempt = @ + 1,
                               !.attemptsAfter = IF cancelled THEN @ + 1 ELSE @]
             dump == i > 0 /\ i % 10 = 0
             d == IF dump
                  THEN [ActiveMQ_PrintLogsOnFailure(c, containerID, out)
                          EXCEPT !.dumpedAfter = @ \cup {i + 1}]
                  ELSE c
         IN
         /\ (~dump \/ ActiveMQ_testConnection(status)) => out = "printed"
         /\ IF ActiveMQ_testConnection(status)
            THEN /\ call' = ActiveMQ_waitForReady_return(c, nil)
                 /\ pc' = "health"
                 /\ UNCHANGED i
            ELSE IF i < maxRetries - 1
            THEN /\ call' = d
                 /\ pc' = "nap"
                 /\ UNCHANGED i
            ELSE /\ call' = d
                 /\ pc' = "ready"
                 /\ i' = i + 1
    /\ UNCHANGED <<cfgVars, handleVars, endpoints, engineVars, cancelled, hist>>

\* ActiveMQContainer.waitForReady: testConnection of one iteration and the log
\* dump after every tenth failure
ActiveMQ_waitForReady_probe ==
    /\ pc = "probe"
    /\ kind = "amq"
    /\ \E status \in HTTPStatuses, out \in DiagOutcomes :
         LET c == [call EXCEPT !.nAttempt = @ + 1,
                               !.attemptsAfter = IF cancelled THEN @ + 1 ELSE @]
             dump == i > 0 /\ (i + 1) % 10 = 0
             d == IF dump
                  THEN [ActiveMQ_PrintLogsOnFailure(c, containerID, out)
                          EXCEPT !.dumpedAfter = @ \cup {i + 1}]
                  ELSE c
         IN
         /\ (~dump \/ ActiveMQ_testConnection(status)) => out = "printed"
         /\ IF ActiveMQ_testConnection(status)
            THEN /\ call' = ActiveMQ_waitForReady_return(c, nil)
                 /\ pc' = "health"
                 /\ UNCHANGED i
            ELSE IF i < maxRetries - 1
            THEN /\ call' = d
                 /\ pc' = "nap"
                 /\ UNCHANGED i
            ELSE /\ call' = d
                 /\ pc' = "ready"
                 /\ i' = i + 1
    /\ UNCHANGED <<cfgVars, handleVars, endpoints, engineVars, cancelled, hist>>

\* ActiveMQContainer.Start returning nil whatever the health check found
ActiveMQ_Start_health_ignored ==
    /\ pc = "health"
    /\ \E status \in HTTPStatuses, list \in ListOutcomes :
         LET e == ActiveMQ_HealthCheck(status, list)
             c == [call EXCEPT !.healthDone = TRUE, !.healthErr = e]
         IN call' = Return(c, nil)
    /\ pc' = "idle"
    /\ UNCHANGED <<cfgVars, handleVars, endpoints, engineVars, cancelled, i, hist>>

\* ActiveMQContainer.Start: the health check after the readiness loop
ActiveMQ_Start_health ==
    /\ pc = "health"
    /\ \E status \in HTTPStatuses, list \in ListOutcomes, out \in DiagOutcomes :
         LET e == ActiveMQ_HealthCheck(status, list)
             c == [call EXCEPT !.healthDone = TRUE, !.healthErr = e]
         IN /\ e = nil => out = "printed"
            /\ call' = IF e # nil
                    THEN Return(ActiveMQ_PrintLogsOnFailure(c, containerID, out),
                                Wrap("ActiveMQ health check failed", e))
                    ELSE Return(c, nil)
    /\ pc' = "idle"
    /\ UNCHANGED <<cfgVars, handleVars, endpoints, engineVars, cancelled, i, hist>>

\* HealthCheck called by the user of the handle
HealthCheck ==
    /\ Idle
    /\ IF kind = "amq"
       THEN \E status \in HTTPStatuses, list \in ListOutcomes :
              call' = Atomic("HealthCheck", "", ActiveMQ_HealthCheck(status, list))
       ELSE \E out \in SQLOutcomes :
              call' = Atomic("HealthCheck", "", SQLServer_HealthCheck(out))
    /\ hist' = BeginHist
    /\ cancelled' = FALSE
    /\ UNCHANGED <<cfgVars, handleVars, endpoints, engineVars, pc, i>>

-----------------------------------------------------------------------------
(* The environment *)

\* where in the call a cancellation arrives: inside the stability loop before
\* the ctx check of an iteration still to come ("stable"), inside it after the
\* ctx check of its last iteration ("stable, last"), likewise for the readiness
\* loop, between the two loops while the workload's Start reads the port
\* mappings ("between"), or elsewhere
CancelPoint ==
    IF pc \in {"stable", "inspect", "sleep"}
    THEN IF (pc = "stable" /\ i >= maxChecks) \/ (pc # "stable" /\ i = maxChecks - 1)
         THEN "stable, last" ELSE "stable"
    ELSE IF pc \in {"ready", "probe", "nap"}
    THEN IF (pc = "ready" /\ i >= maxRetries) \/ (pc = "probe" /\ i = maxRetries - 1)
         THEN "ready, last" ELSE "ready"
    ELSE IF pc \in {"ports", "webPort", "jmxPort"} THEN "between"
    ELSE "other"

\* the caller's context is cancelled while a call is in progress
Cancel ==
    /\ ~Idle
    /\ ~cancelled
    /\ cancelled' = TRUE
    /\ call' = [call EXCEPT !.cancelAt = CancelPoint]
    /\ UNCHANGED <<cfgVars, handleVars, endpoints, engineVars, pc, i, hist>>

\* the process of the handle's container exits; the readiness loop and the
\* health check read nothing of the engine, so an exit during them is taken
\* when they are over
ContainerExits ==
    /\ pc \notin {"ready", "probe", "nap", "health"}
    /\ Running(containerID)
    /\ engine' = [engine EXCEPT ![containerID].state = "exited"]
    /\ UNCHANGED <<cfgVars, handleVars, endpoints, nextId, cancelled, pc, i,
                   call, hist>>

-----------------------------------------------------------------------------
(* The generic handle *)

NoEndpoints == [connectionString |-> "", brokerURL |-> "", webConsoleURL |-> ""]

\* the engine before the handle is built: the foreign container, and possibly
\* a container that an earlier run left under the configured name
InitEngine(named) ==
    [id \in Ids |->
        IF id = ForeignID THEN [state |-> "running", name |-> ForeignName]
        ELSE IF id = ForeignID + 1 /\ named # "none"
        THEN [state |-> named, name |-> cfgName]
        ELSE Absent]

\* New(config): no identifier, not running
InitHandle ==
    /\ containerID = NoID
    /\ isRunning = FALSE
    /\ endpoints = NoEndpoints
    /\ cancelled = FALSE
    /\ pc = "idle"
    /\ i = 0
    /\ call = NoCall
    /\ hist = NoHist

InitConfig(names) ==
    /\ reuse \in BOOLEAN
    /\ cfgName \in names
    /\ \E named \in {"none", "created", "running", "exited"} :
         /\ (cfgName = << >>) => named = "none"
         /\ engine = InitEngine(named)
         /\ nextId = IF named = "none" THEN ForeignID + 1 ELSE ForeignID + 2

Init ==
    /\ kind = "generic"
    /\ InitConfig({<< >>, <<"n">>})
    /\ InitHandle
    /\ NoOthers

Next ==
    \/ Start
    \/ Start_reuse
    \/ ensureContainerRunning
    \/ createAndStartContainer
    \/ createAndStartContainer_start
    \/ waitForStableState
    \/ waitForStableState_inspect
    \/ waitForStableState_sleep
    \/ Stop
    \/ IsRunning
    \/ GetPort
    \/ Logs
    \/ Exec
    \/ Cleanup
    \/ Cancel
    \/ ContainerExits

Spec == Init /\ [][Next]_vars

-----------------------------------------------------------------------------
(* The workload handles *)

InitWorkload ==
    /\ kind \in {"sql", "amq"}
    /\ InitConfig({<<"n">>})
    /\ InitHandle
    /\ NoOthers

NextWorkload ==
    \/ Stop
    \/ IsRunning
    \/ GetPort
    \/ Logs
    \/ Exec
    \/ SQLServer_Start
    \/ ActiveMQ_Start
    \/ Start_reuse
    \/ ensureContainerRunning
    \/ createAndStartContainer
    \/ createAndStartContainer_start
    \/ waitForStableState
    \/ waitForStableState_inspect
    \/ waitForStableState_sleep
    \/ SQLServer_Start_ports
    \/ ActiveMQ_Start_ports
    \/ ActiveMQ_Start_ports_web
    \/ ActiveMQ_Start_ports_jmx
    \/ SQLServer_waitForReady
    \/ SQLServer_waitForReady_probe
    \/ ActiveMQ_waitForReady
    \/ ActiveMQ_waitForReady_probe
    \/ waitForReady_sleep
    \/ ActiveMQ_Start_health
    \/ HealthCheck
    \/ Cleanup
    \/ Cancel
    \/ ContainerExits

SpecWorkload == InitWorkload /\ [][NextWorkload]_vars

-----------------------------------------------------------------------------
(* Container.Start, Cleanup and the handle's fields *)

StartDone == call.op = "Start" /\ call.done

StartOK == StartDone /\ call.err = nil

\* C1: with reuse on, a Start whose listing succeeded locates exactly the
\* container the engine has under the configured name; having located one it
\* adopts that container's identifier, makes no create call, no image check
\* and no pull, issues a start call exactly when the container was listed as
\* not running, and when it returns nil the handle says running.
C1_ReuseAdoptsNamedContainer ==
    (call.op = "Start" /\ reuse /\ call.listed) =>
        /\ call.located = call.named
        /\ call.located # NoID =>
             /\ containerID = call.located
             /\ call.nList = 1
             /\ call.nCreate = 0
             /\ call.nImageInspect = 0
             /\ call.nPull = 0
             /\ call.done => /\ call.nStart = IF call.locatedUp THEN 0 ELSE 1
                             /\ call.err = nil => isRunning

\* a Start that found the named container stopped, next to a container whose
\* name only begins with the configured name, started it and returned nil
C1_Witness ==
    /\ StartOK /\ reuse /\ Idle
    /\ call.located # NoID /\ ~call.locatedUp /\ call.nStart = 1
    /\ containerID = call.located /\ isRunning
    /\ Exists(ForeignID)

\* C2 as stated: every Start that returns nil has passed the stability check.
C2_EveryStartPassesStability ==
    StartOK => (call.stableDone /\ call.stableErr = nil)

\* C3: after Cleanup returns nil on a handle that held an identifier: with
\* reuse on the handle says not running, holds the same identifier and no
\* remove call was made; with reuse off the identifier is empty.
C3_CleanupKeepsOrClears ==
    (call.op = "Cleanup" /\ call.done /\ call.err = nil /\ call.preID # NoID) =>
        IF reuse
        THEN /\ ~isRunning
             /\ containerID = call.preID
             /\ call.nRemove = 0
             /\ Exists(containerID)
        ELSE /\ containerID = NoID
             /\ call.nRemove = 1

\* Cleanup has returned nil on a reuse handle that said running
C3_Witness ==
    /\ call.op = "Cleanup" /\ call.done /\ call.err = nil
    /\ reuse /\ call.preID # NoID /\ call.preRunning
    /\ containerID = call.preID

\* C4: an identifier the handle holds becomes empty only in a Cleanup with
\* reuse off whose remove call succeeded; no other step empties it.
C4_OnlyCleanupClearsID ==
    [][(containerID # NoID /\ containerID' = NoID) =>
          /\ call'.op = "Cleanup" /\ call'.done /\ call'.err = nil
          /\ call'.nRemove = 1
          /\ ~reuse
          /\ ~Exists(containerID)']_vars

\* a Cleanup has emptied the identifier the handle held
C4_Witness ==
    /\ call.op = "Cleanup" /\ call.done
    /\ ~reuse /\ call.preID # NoID /\ containerID = NoID
    /\ call.nRemove = 1

\* C5 as stated: between calls isRunning is what the engine last reported or
\* was last made to do about the identifier the handle holds.
C5_FlagIsLastObservation ==
    (Idle /\ hist.observed # "none") => (isRunning <=> hist.observed = "running")

\* C5: between calls isRunning is the outcome of the most recent of: a listing
\* that located the container, a successful start call on an adopted
\* container, a stability check that passed, a successful stop call, a
\* successful inspection by IsRunning (false when there was none); a Start
\* that fails after its create call leaves the flag as it was.
C5_FlagIsLastTrackedOutcome ==
    /\ Idle => (isRunning <=> hist.tracked = "running")
    /\ (StartDone /\ call.err # nil /\ call.created # NoID) =>
          isRunning = call.preRunning

\* a Start has failed on a container it created and that a poll reported as
\* not running, and the handle still says running
C5_Witness ==
    /\ StartDone /\ call.err # nil /\ Idle
    /\ containerID = call.created /\ containerID # call.preID
    /\ hist.observed = "stopped" /\ isRunning

-----------------------------------------------------------------------------
(* The polling loops *)

InStabilityLoop(at) == at \in {"stable", "stable, last"}

InReadinessLoop(at) == at \in {"ready", "ready, last"}

ExitedErr == Errorf("container exited with status")

InspectErr == Wrap("failed to inspect container", engineErr)

\* C6 as stated, for a cancellation that arrives while no probe is in flight:
\* a polling loop whose context is cancelled while it sleeps or passes from
\* one iteration to the next never returns success and never returns the
\* exhaustion error.
C6_CancelledLoopNeverSucceeds ==
    /\ (call.stableDone /\ InStabilityLoop(call.cancelAt) /\ call.pollsAfter = 0) =>
          call.stableErr # nil
    /\ (call.readyDone /\ InReadinessLoop(call.cancelAt) /\ call.attemptsAfter = 0) =>
          call.readyErr \notin {nil, Exhausted}

\* C7: a readiness loop that uses up its budget has made 30 (SQL Server) or 60
\* (ActiveMQ) attempts with one sleep fewer and returns "failed to become
\* ready after N attempts"; one that succeeds at attempt k has made k attempts
\* and k - 1 sleeps; uncancelled, it ends in one of these two ways.
C7_ReadinessBudget ==
    call.readyDone =>
        /\ call.readyErr = Exhausted =>
              /\ call.nAttempt = maxRetries
              /\ call.nReadySleep = maxRetries - 1
              /\ call.nAttempt = IF kind = "sql" THEN 30 ELSE 60
              /\ call.readyErr =
                   IF kind = "sql"
                   THEN <<"SQL Server failed to become ready after 30 attempts">>
                   ELSE <<"ActiveMQ failed to become ready after 60 attempts">>
        /\ call.readyErr = nil =>
              /\ call.nAttempt \in 1..maxRetries
              /\ call.nReadySleep = call.nAttempt - 1
        /\ call.cancelAt = "none" => call.readyErr \in {nil, Exhausted}

\* the readiness loop of ActiveMQ has used up its 60 attempts
C7_Witness ==
    /\ kind = "amq"
    /\ call.readyDone /\ call.readyErr = Exhausted
    /\ call.nAttempt = 60 /\ call.nReadySleep = 59
    /\ call.done

\* C8: the first poll of the stability check that reports the container as
\* not running ends the check with an error: no poll and no sleep follow it,
\* and Start returns that error.
C8_NotRunningPollEndsCheck ==
    call.op = "Start" =>
        /\ call.nNotRunning <= 1
        /\ call.nNotRunning = 1 =>
              /\ call.stableDone /\ call.stableErr = ExitedErr
              /\ call.nPoll \in 1..6
              /\ call.nSleep = call.nPoll - 1
              /\ call.done
              /\ call.err = Wrap("container failed to maintain stable state",
                                 ExitedErr)
              /\ Idle
        /\ (call.stableDone /\ call.stableErr = ExitedErr) => call.nNotRunning = 1

\* the third poll reported the container as not running and Start failed
C8_Witness ==
    /\ StartDone /\ call.err # nil
    /\ call.nNotRunning = 1 /\ call.nPoll = 3 /\ call.nSleep = 2

\* C9: the stability check returns success only after 6 polls that all
\* reported running, and it does return success after them when the context
\* is not cancelled and no inspection fails.
C9_SuccessAfterSixPolls ==
    /\ (call.stableDone /\ call.stableErr = nil) =>
          /\ call.nPoll = 6
          /\ call.nSleep = 6
          /\ call.nNotRunning = 0
    /\ (call.stableDone /\ call.cancelAt = "none" /\ call.nNotRunning = 0
          /\ call.stableErr # InspectErr) =>
          call.stableErr = nil
    /\ pc \in {"stable", "inspect", "sleep"} =>
          call.nSleep = i /\ call.nPoll = IF pc = "sleep" THEN i + 1 ELSE i

\* a Start has returned nil after its sixth poll
C9_Witness ==
    /\ StartOK
    /\ call.stableDone /\ call.stableErr = nil
    /\ call.nPoll = 6 /\ call.nNotRunning = 0
    /\ call.cancelAt = "none"

\* C10: with reuse off, a Start that follows a successful Start and a
\* successful Cleanup makes its own create call and from then on holds the
\* identifier that call returned, which differs from the first Start's.
C10_SecondStartCreatesAnew ==
    (call.op = "Start" /\ ~reuse) =>
        /\ pc \in {"run", "stable", "inspect", "sleep"} =>
              call.nCreate = 1 /\ call.created # NoID /\ containerID = call.created
        /\ (StartOK /\ hist.stage = 2) =>
              /\ call.nCreate = 1
              /\ call.preID = NoID
              /\ containerID = call.created
              /\ hist.id # NoID
              /\ containerID # hist.id
              /\ ~Exists(hist.id)

\* Start, Cleanup, Start have all returned nil on a named handle without reuse
C10_Witness ==
    /\ StartOK /\ Idle /\ ~reuse /\ hist.stage = 2
    /\ cfgName # << >>
    /\ containerID = call.created /\ containerID # hist.id

-----------------------------------------------------------------------------
(* Stop, IsRunning, GetPort *)

StopErr == Wrap("failed to stop container", engineErr)

\* C11: Stop on a handle without identifier makes no engine call and returns
\* nil; otherwise it makes one stop call, a successful Stop leaves the handle
\* saying not running with the same identifier, and a Stop right after a
\* successful one makes its stop call again, can fail only with the engine's
\* error and leaves the handle as it was: not running, same identifier.
C11_StopIsIdempotent ==
    (call.op = "Stop" /\ Idle) =>
        /\ containerID = call.preID
        /\ call.preID = NoID =>
              call.nStop = 0 /\ call.err = nil /\ isRunning = call.preRunning
        /\ call.preID # NoID =>
              /\ call.nStop = 1
              /\ call.err \in {nil, StopErr}
              /\ call.err = nil => ~isRunning
              /\ call.err # nil => isRunning = call.preRunning
        /\ hist.stage = 3 =>
              /\ ~call.preRunning /\ ~isRunning
              /\ containerID = hist.id /\ containerID # NoID

\* a second Stop right after a successful one has returned nil
C11_Witness ==
    /\ call.op = "Stop" /\ Idle /\ hist.stage = 3
    /\ call.err = nil /\ call.nStop = 1
    /\ ~isRunning /\ containerID = hist.id

\* C12: IsRunning on a handle without identifier returns (false, nil) without
\* an engine call; with an identifier every call inspects the container and
\* returns and stores the state the inspection reports, whatever the flag
\* said, and a failed inspection returns (false, error) and leaves the flag.
C12_IsRunningAsksTheEngine ==
    [][(call'.op = "IsRunning" /\ engine' = engine) =>
          /\ containerID' = containerID
          /\ containerID = NoID =>
                /\ call'.nStateInspect = 0
                /\ call'.err = nil /\ ~call'.retBool
                /\ isRunning' = isRunning
          /\ containerID # NoID =>
                /\ call'.nStateInspect = 1
                /\ call'.err = nil =>
                      /\ call'.retBool = Running(containerID)
                      /\ isRunning' = Running(containerID)
                /\ call'.err # nil =>
                      /\ call'.err = InspectErr
                      /\ ~call'.retBool
                      /\ isRunning' = isRunning]_vars

\* IsRunning has returned false on a handle whose flag said running
C12_Witness ==
    /\ call.op = "IsRunning" /\ Idle /\ call.err = nil
    /\ call.preID # NoID /\ call.preRunning
    /\ ~call.retBool /\ ~isRunning
    /\ call.nStateInspect = 1

\* C13: GetPort of a port that is not in the configured port map returns an
\* error and no host port in every state of the handle: "container not
\* started" without an engine call while the handle has no identifier, and
\* "no port mapping found" whenever the inspection succeeds.
C13_GetPortOfUnmappedPortFails ==
    (call.op = "GetPort" /\ call.arg \notin Ports) =>
        /\ call.err # nil
        /\ call.retStr = ""
        /\ containerID = NoID =>
              /\ call.err = <<"container not started">>
              /\ call.nPortInspect = 0
        /\ containerID # NoID =>
              /\ call.nPortInspect = 1
              /\ call.err \in {<<"no port mapping found for port 9999">>,
                                InspectErr}

\* GetPort of an unmapped port right after a Start that returned nil, on a
\* container that runs
C13_Witness ==
    /\ call.op = "GetPort" /\ call.arg = UnmappedPort
    /\ hist.stage = 1 /\ Running(containerID)
    /\ call.err = <<"no port mapping found for port 9999">>
    /\ call.retStr = ""

-----------------------------------------------------------------------------
(* The paths of Start *)

StableWrap(e) == Wrap("container failed to maintain stable state", e)

PullErr == Wrap("failed to pull image", engineErr)

CreateErr == Wrap("failed to create container", engineErr)

StartErr == Wrap("failed to start container", engineErr)

StartExistingErr == Wrap("failed to start existing container", engineErr)

\* what createAndStartContainer can return
CreatePathResults ==
    {nil, PullErr, CreateErr, StartErr,
     StableWrap(ctxErr), StableWrap(InspectErr), StableWrap(ExitedErr)}

LookupFailed ==
    call.op = "Start" /\ reuse /\ call.nList = 1
      /\ (~call.listed \/ call.named = NoID)

\* C14: with reuse on, a lookup that fails (the listing fails, or no container
\* has the configured name) locates nothing and leaves identifier and flag as
\* they were; Start goes on to the create path and returns what that path
\* returns, never the lookup's error.
C14_FailedLookupFallsThrough ==
    LookupFailed =>
        /\ call.located = NoID
        /\ pc # "ensure"
        /\ pc = "create" =>
              /\ ~call.done
              /\ containerID = call.preID /\ isRunning = call.preRunning
        /\ call.done =>
              /\ call.nImageInspect = 1
              /\ call.err \in CreatePathResults
              /\ call.err = nil <=> (call.stableDone /\ call.stableErr = nil)
              /\ call.err = nil => containerID = call.created

\* the listing failed on a handle that already held an identifier, and Start
\* returned nil with a container it created
C14_Witness ==
    /\ StartOK /\ reuse /\ call.nList = 1 /\ ~call.listed
    /\ call.preID # NoID
    /\ call.created # NoID /\ containerID = call.created

\* C15 as stated: Cleanup of a handle without reuse that holds an identifier
\* always makes the remove call, and when it returns nil the handle is as it
\* was before any container was created: no identifier, not running.
C15_CleanupRestoresNewHandle ==
    (call.op = "Cleanup" /\ call.done /\ ~reuse /\ call.preID # NoID) =>
        /\ call.nStop = 1 /\ call.nRemove = 1
        /\ call.err = nil => (containerID = NoID /\ ~isRunning)

\* C16: the create path makes each of its engine calls at most once; when the
\* pull of an absent image fails no create and no start call is made, when
\* the create call fails no start call is made, and in both cases Start
\* returns the wrapped cause with identifier and flag as they were.
C16_CreatePathAbortsAtFailure ==
    call.op = "Start" =>
        /\ call.nImageInspect <= 1 /\ call.nPull <= 1
        /\ call.nCreate <= 1 /\ call.nStart <= 1
        /\ (call.done /\ call.err = PullErr) =>
              /\ call.nPull = 1 /\ call.nCreate = 0 /\ call.nStart = 0
              /\ call.created = NoID /\ call.nPoll = 0
              /\ containerID = call.preID /\ isRunning = call.preRunning
        /\ (call.done /\ call.err = CreateErr) =>
              /\ call.nCreate = 1 /\ call.nStart = 0
              /\ call.created = NoID /\ call.nPoll = 0
              /\ containerID = call.preID /\ isRunning = call.preRunning
        /\ (call.done /\ call.nImageInspect = 1 /\ call.nCreate = 0) =>
              call.err = PullErr
        /\ (call.done /\ call.nCreate = 1 /\ call.created = NoID) =>
              call.err = CreateErr

\* the create call failed on a handle that held an identifier and said running
C16_Witness ==
    /\ StartDone /\ call.err = CreateErr
    /\ call.preID # NoID /\ call.preRunning
    /\ containerID = call.preID /\ isRunning
    /\ call.nStart = 0

-----------------------------------------------------------------------------
(* Diagnostics and the result of Start *)

\* C17 as stated: whenever a start call made by Start fails, on a created or
\* on an adopted container, or the stability check fails, the diagnostics
\* have run before Start returns.
C17_EveryStartFailureRunsDiagnostics ==
    (StartDone /\ (call.err \in {StartErr, StartExistingErr}
                     \/ (call.stableDone /\ call.stableErr # nil))) =>
        call.nDiag >= 1

\* C18: whatever the sub-calls of the diagnostics did, the diagnostics
\* return, identifier and flag are as the failing step left them, and the
\* error Start returns is the one of the step that failed.
C18_DiagnosticsChangeNothing ==
    (call.op = "Start" /\ call.nDiag >= 1) =>
        /\ call.done /\ Idle
        /\ call.diag \in DiagOutcomes
        /\ containerID = call.created /\ isRunning = call.preRunning
        /\ IF call.nPoll = 0 THEN call.err = StartErr
           ELSE IF call.nNotRunning = 1 THEN call.err = StableWrap(ExitedErr)
           ELSE call.err = StableWrap(InspectErr)

\* the start call failed, every sub-call of the diagnostics failed too, and
\* Start returned the start call's error
C18_Witness ==
    /\ StartDone /\ call.err = StartErr
    /\ call.nDiag = 1 /\ call.diag = "inspect failed, logs failed"
    /\ containerID = call.created

\* C19: when Start has returned nil the handle holds an identifier and says
\* running, and an IsRunning that follows at once and inspects a container the
\* engine has running returns true.
C19_StartedHandleSaysRunning ==
    [][/\ StartOK' => (containerID' # NoID /\ isRunning' /\ Exists(containerID)')
       /\ (hist'.stage = 1 /\ call'.op = "IsRunning" /\ engine' = engine
             /\ Running(containerID) /\ call'.err = nil) =>
             (call'.retBool /\ isRunning')]_vars

\* IsRunning right after a Start with reuse on that returned nil has inspected
\* the container and returned true
C19_Witness ==
    /\ call.op = "IsRunning" /\ hist.stage = 1 /\ reuse
    /\ call.err = nil /\ call.retBool /\ isRunning
    /\ containerID # NoID /\ call.nStateInspect = 1

-----------------------------------------------------------------------------
(* The endpoints of ActiveMQContainer *)

GetBrokerURL == endpoints.brokerURL

GetTCPBrokerURL == endpoints.brokerURL

GetWebConsoleURL == endpoints.webConsoleURL

\* C20: on an ActiveMQ handle GetBrokerURL and GetTCPBrokerURL are always
\* equal; the three URLs are empty until a Start has read the host ports, and
\* after a Start that returned nil they are tcp://localhost:<port> and
\* http://localhost:<port> with the host ports the engine reports for 61616
\* and 8161 of the handle's container.
C20_BrokerAndConsoleURLs ==
    kind = "amq" =>
        /\ GetBrokerURL = GetTCPBrokerURL
        /\ ~hist.resolved =>
              GetBrokerURL = "" /\ GetTCPBrokerURL = "" /\ GetWebConsoleURL = ""
        /\ hist.resolved => GetBrokerURL # "" /\ GetWebConsoleURL # ""
        /\ (call.op = "WStart" /\ call.done /\ call.err = nil) =>
              /\ hist.resolved
              /\ GetBrokerURL = "tcp://localhost:" \o HostPortOf(containerID, "61616")
              /\ GetWebConsoleURL = "http://localhost:" \o HostPortOf(containerID, "8161")
              /\ GetBrokerURL # "" /\ GetWebConsoleURL # ""

\* a Start of an ActiveMQ handle has returned nil and the URLs are set
C20_Witness ==
    /\ kind = "amq" /\ Idle
    /\ call.op = "WStart" /\ call.done /\ call.err = nil
    /\ call.healthDone
    /\ GetBrokerURL # "" /\ GetWebConsoleURL # ""
    /\ containerID # NoID

-----------------------------------------------------------------------------
(* The endpoint accessors and the workload's Start *)

GetConnectionString == endpoints.connectionString

\* a Start of the workload handle has returned nil
Unlocked ==
    hist.unlocked \/ (call.op = "WStart" /\ call.done /\ call.err = nil)

\* an accessor of the workload handle returns a non-empty string
AccessorSet ==
    GetConnectionString # "" \/ GetBrokerURL # "" \/ GetWebConsoleURL # ""

\* C21 as the specification states it: between calls, an accessor returns a
\* non-empty connection string or URL only if a Start of that handle has
\* returned nil.
C21_AccessorsNeedSuccessfulStart == (call.done /\ AccessorSet) => Unlocked

\* C21, amended: an accessor returns a non-empty connection string or URL
\* exactly when a Start of that handle got nil from Container.Start and read
\* all the host ports it needs, whether or not that Start then returned nil;
\* every Start that returned nil did so; and the endpoints change in no other
\* step, so a Start that fails before that point leaves the accessors as they
\* were.
C21_AccessorsNeedResolvedPorts ==
    /\ [](AccessorSet <=> hist.resolved)
    /\ [](Unlocked => AccessorSet)
    /\ [][endpoints' # endpoints =>
              /\ call.op = "WStart" /\ ~call.done
              /\ call.cdone /\ call.cerr = nil
              /\ pc = (IF kind = "amq" THEN "jmxPort" ELSE "ports")
              /\ pc' = "ready"]_vars

\* a Start of the SQL Server handle failed in its readiness loop: no Start has
\* returned nil, and the connection string is set
C21_Witness ==
    /\ kind = "sql"
    /\ call.op = "WStart" /\ call.done
    /\ call.readyDone /\ call.readyErr # nil /\ call.err # nil
    /\ ~Unlocked
    /\ GetConnectionString # ""

-----------------------------------------------------------------------------
(* The periodic log dump of the readiness loops *)

\* the attempts of the readiness loop in progress that have failed
FailedAttempts ==
    IF call.readyDone /\ call.readyErr = nil THEN call.nAttempt - 1
    ELSE call.nAttempt

\* C22: the readiness loop of ActiveMQ has dumped the logs after its failed
\* attempts number 10, 20, ..., 60 and after no other one: an attempt of that
\* loop prints the logs exactly when it failed and its number is a multiple
\* of ten; the readiness loop of SQL Server prints no logs at all.
C22_DumpEveryTenthFailure ==
    /\ [](call.op = "WStart" =>
            call.dumpedAfter =
              IF kind = "amq"
              THEN {k \in 1..FailedAttempts : k % 10 = 0}
              ELSE {})
    /\ [][call'.nAttempt = call.nAttempt + 1 =>
              call'.nDiag = call.nDiag +
                 (IF kind = "amq" /\ ~call'.readyDone /\ call'.nAttempt % 10 = 0
                  THEN 1 ELSE 0)]_vars
    /\ [][(kind = "sql" /\ pc \in {"ready", "probe", "nap"}) =>
              call'.nDiag = call.nDiag]_vars

\* the readiness loop of ActiveMQ used up its sixty attempts and dumped the
\* logs after the six of them whose number is a multiple of ten
C22_Witness ==
    /\ kind = "amq"
    /\ call.op = "WStart" /\ call.done
    /\ call.readyErr = Exhausted
    /\ call.nAttempt = ActiveMQ_maxRetries
    /\ call.dumpedAfter = {10, 20, 30, 40, 50, 60}

-----------------------------------------------------------------------------
(* The probes of the workloads, called on their own *)

\* the endpoints a workload handle can hold: none before its first Start, or
\* those a Start built from the host ports of one of its containers
ProbeEndpoints ==
    {NoEndpoints} \cup
    {IF kind = "sql"
     THEN [NoEndpoints EXCEPT !.connectionString =
             "server=localhost;port=" \o HostPortOf(id, "1433")
               \o ";database=master;user id=sa;password=" \o password
               \o ";encrypt=disable"]
     ELSE [NoEndpoints EXCEPT
             !.brokerURL = "tcp://localhost:" \o HostPortOf(id, "61616"),
             !.webConsoleURL = "http://localhost:" \o HostPortOf(id, "8161")]
       : id \in Ids \ {ForeignID}}

\* testConnection of either workload; the call records what the server
\* answered and what testConnection returned
testConnection ==
    /\ Idle
    /\ IF kind = "amq"
       THEN \E status \in HTTPStatuses :
              call' = [Atomic("testConnection", ToString(status), nil)
                         EXCEPT !.retBool = ActiveMQ_testConnection(status)]
       ELSE \E out \in SQLOutcomes :
              call' = [Atomic("testConnection", out, nil)
                         EXCEPT !.retBool = SQLServer_testConnection(out)]
    /\ UNCHANGED <<cfgVars, handleVars, endpoints, engineVars, cancelled, pc, i,
                   hist>>

\* HealthCheck of either workload; the call records what the server answered
\* and, for ActiveMQ, what listing the queues came to
HealthCheck_answered ==
    /\ Idle
    /\ IF kind = "amq"
       THEN \E status \in HTTPStatuses, list \in ListOutcomes :
              call' = [Atomic("HealthCheck", ToString(status),
                              ActiveMQ_HealthCheck(status, list))
                         EXCEPT !.retStr = list]
       ELSE \E out \in SQLOutcomes :
              call' = Atomic("HealthCheck", out, SQLServer_HealthCheck(out))
    /\ UNCHANGED <<cfgVars, handleVars, endpoints, engineVars, cancelled, pc, i,
                   hist>>

InitProbe ==
    /\ kind \in {"sql", "amq"}
    /\ reuse = FALSE
    /\ cfgName = <<"n">>
    /\ engine = InitEngine("none")
    /\ nextId = ForeignID + 1
    /\ containerID = NoID
    /\ isRunning = FALSE
    /\ endpoints \in ProbeEndpoints
    /\ cancelled = FALSE
    /\ pc = "idle"
    /\ i = 0
    /\ call = NoCall
    /\ hist = NoHist
    /\ NoOthers

NextProbe ==
    \/ testConnection
    \/ HealthCheck_answered

SpecProbe == InitProbe /\ [][NextProbe]_vars

\* the statuses of the web console that count as ready
ReadyStatuses == {ToString(200), ToString(302), ToString(401)}

\* the errors with which the web console step of ActiveMQ's HealthCheck fails
WebStepErrs ==
    {Wrap("health check failed - web console request failed", engineErr),
     Errorf("health check failed - web console returned unexpected status")}

\* C23: testConnection of ActiveMQ returns true exactly when the web console
\* URL is set and the console answered 200, 302 or 401, and false when the
\* URL is unset or the request failed; with the URL set, the web console step
\* of HealthCheck passes for exactly the same answers.
C23_ReadyStatuses ==
    /\ (kind = "amq" /\ call.op = "testConnection") =>
          /\ call.retBool <=>
                (GetWebConsoleURL # "" /\ call.arg \in ReadyStatuses)
          /\ (GetWebConsoleURL = "" \/ call.arg = ToString(0)) => ~call.retBool
    /\ (kind = "amq" /\ call.op = "HealthCheck" /\ GetWebConsoleURL # "") =>
          (call.err \notin WebStepErrs <=> call.arg \in ReadyStatuses)

\* testConnection of ActiveMQ returned true on a redirect
C23_Witness ==
    /\ kind = "amq" /\ call.op = "testConnection"
    /\ GetWebConsoleURL # ""
    /\ call.arg = ToString(302) /\ call.retBool

-----------------------------------------------------------------------------
(* What precedes the readiness loop of a workload's Start *)

\* C24 as the specification states it: a readiness attempt is made only after
\* Container.Start has returned nil with the stability check passed.
C24_ReadinessAfterStabilityCheck ==
    (call.op = "WStart" /\ call.nAttempt > 0) =>
        /\ call.cdone /\ call.cerr = nil
        /\ call.stableDone /\ call.stableErr = nil

-----------------------------------------------------------------------------
(* HealthCheck, called by the user and by ActiveMQContainer.Start *)

\* the error of a HealthCheck on a handle whose endpoint is not set
NotSetErr ==
    IF kind = "amq"
    THEN Errorf("web console URL not set - container may not be started")
    ELSE Errorf("connection string not set - container may not be started")

\* the endpoint that HealthCheck of the handle connects to
HealthEndpoint == IF kind = "amq" THEN GetWebConsoleURL ELSE GetConnectionString

\* C25: a HealthCheck on a handle whose endpoint is not set fails with "web
\* console URL not set" (ActiveMQ) or "connection string not set" (SQL Server)
\* whatever the network would answer; a Start of ActiveMQ runs its health check
\* only after a readiness attempt succeeded, returns nil only after that check
\* returned nil, and when that check fails prints the logs and returns the
\* error wrapped as "ActiveMQ health check failed".
C25_HealthCheckGatesStart ==
    /\ (call.op = "HealthCheck" /\ HealthEndpoint = "") => call.err = NotSetErr
    /\ (call.op = "HealthCheck" /\ call.err = NotSetErr) => HealthEndpoint = ""
    /\ (call.op = "WStart" /\ kind = "amq") =>
          /\ (call.healthDone \/ pc = "health") =>
                call.readyDone /\ call.readyErr = nil /\ call.nAttempt >= 1
          /\ (call.done /\ call.err = nil) =>
                call.healthDone /\ call.healthErr = nil
          /\ (call.healthDone /\ call.healthErr # nil) =>
                /\ call.done
                /\ call.err = Wrap("ActiveMQ health check failed", call.healthErr)
                /\ call.nDiag = Cardinality(call.dumpedAfter) + 1
                /\ call.diag # "none"

\* a Start of ActiveMQ whose readiness loop succeeded failed in its health
\* check: it printed the logs and returned the wrapped error
C25_Witness ==
    /\ kind = "amq" /\ call.op = "WStart" /\ call.done
    /\ call.readyDone /\ call.readyErr = nil
    /\ call.healthDone /\ call.healthErr # nil
    /\ call.nDiag = 1
    /\ call.err = Wrap("ActiveMQ health check failed", call.healthErr)

-----------------------------------------------------------------------------
(* HelmChart: the values of the chart (package helm)                        *)
(*                                                                          *)
(* A map[string]interface{} whose values are scalars or such maps is the    *)
(* function from the paths of its scalars to them, a path being the         *)
(* sequence of the keys that lead from the map to the scalar.  The chart    *)
(* holds a reference to one map, and GetValues returns that map.            *)

\* the keys SetValue is called with, as Go strings
SetKeys ==
    {<<"a">>, <<"b">>, <<"a", ".", "b">>, <<"b", ".", "a">>,
     <<"a", ".", "b", ".", "a">>}

\* the scalars that are set
Scalars == {1, 2}

\* strings.Split(key, "."): the parts of a key between its dots
RECURSIVE Split(_)
Split(key) ==
    IF \A n \in 1..Len(key) : key[n] # "."
    THEN <<key>>
    ELSE LET n == CHOOSE n \in 1..Len(key) :
                     key[n] = "." /\ \A k \in 1..(n - 1) : key[k] # "."
         IN <<SubSeq(key, 1, n - 1)>> \o Split(SubSeq(key, n + 1, Len(key)))

IsPrefix(p, q) == Len(p) <= Len(q) /\ SubSeq(q, 1, Len(p)) = p

\* the map m with m[path] = value: whatever was at the path or below it is gone
Put(m, path, value) ==
    [q \in {q \in DOMAIN m : ~IsPrefix(path, q)} \cup {path} |->
        IF q = path THEN value ELSE m[q]]

\* the map found at the path inside m
MapAt(m, path) ==
    [q \in {SubSeq(r, Len(path) + 1, Len(r)) :
               r \in {r \in DOMAIN m : IsPrefix(path, r) /\ r # path}} |->
        m[path \o q]]

\* the maps Values is called with: {a: 1}, {b: 2}, {a: {b: 1}}, {a: 2, b: 1}
ValueMaps ==
    { Put(<< >>, << <<"a">> >>, 1),
      Put(<< >>, << <<"b">> >>, 2),
      Put(<< >>, << <<"a">>, <<"b">> >>, 1),
      Put(Put(<< >>, << <<"a">> >>, 2), << <<"b">> >>, 1) }

\* NewHelmChart: an empty map of values.  The chart is built from one of the
\* two versions of the package in the repository.  Observation: expect is what
\* the calls so far have set and not overwritten since, op and got are the
\* last call and what GetValues returned.
NewHelmChart(file) ==
    [file |-> file, values |-> << >>, panicked |-> FALSE,
     expect |-> << >>, op |-> "NewHelmChart", got |-> << >>]

\* HelmChart.Values: h.values[k] = v for every key of the argument
HelmChart_Values(values, arg) ==
    LET keys == {q[1] : q \in DOMAIN arg} IN
    [q \in {q \in DOMAIN values : q[1] \notin keys} \cup DOMAIN arg |->
        IF q \in DOMAIN arg THEN arg[q] ELSE values[q]]

\* m[part].(map[string]interface{}) panics when a part before the last one
\* names a scalar
SetValue_panics(values, parts) ==
    \E n \in 1..(Len(parts) - 1) : SubSeq(parts, 1, n) \in DOMAIN values

\* HelmChart.SetValue of unnamed/part_002: the walk creates the maps that are
\* missing and sets the value in the innermost one
HelmChart_SetValue_part_002(values, key, value) ==
    Put(values, Split(key), value)

\* HelmChart.SetValue of helm/helm.go: the same walk, and then h.values = m,
\* the innermost map
HelmChart_SetValue(values, key, value) ==
    LET parts == Split(key) IN
    MapAt(Put(values, parts, value), SubSeq(parts, 1, Len(parts) - 1))

Values ==
    /\ ~chart.panicked
    /\ \E arg \in ValueMaps :
         chart' = [chart EXCEPT
                     !.values = HelmChart_Values(@, arg),
                     !.expect = HelmChart_Values(@, arg),
                     !.op = "Values"]
    /\ UNCHANGED <<kind, reuse, cfgName, cluster, forward, handleVars, endpoints,
                   engineVars, cancelled, pc, i, call, hist>>

SetValue ==
    /\ ~chart.panicked
    /\ \E key \in SetKeys, value \in Scalars :
         chart' =
            IF SetValue_panics(chart.values, Split(key))
            THEN [chart EXCEPT !.panicked = TRUE, !.op = "SetValue"]
            ELSE [chart EXCEPT
                    !.values = IF chart.file = "helm/helm.go"
                               THEN HelmChart_SetValue(@, key, value)
                               ELSE HelmChart_SetValue_part_002(@, key, value),
                    !.expect = Put(@, Split(key), value),
                    !.op = "SetValue"]
    /\ UNCHANGED <<kind, reuse, cfgName, cluster, forward, handleVars, endpoints,
                   engineVars, cancelled, pc, i, call, hist>>

GetValues ==
    /\ ~chart.panicked
    /\ chart' = [chart EXCEPT !.op = "GetValues", !.got = chart.values]
    /\ UNCHANGED <<kind, reuse, cfgName, cluster, forward, handleVars, endpoints,
                   engineVars, cancelled, pc, i, call, hist>>

\* no container handle is in use
NoContainer ==
    /\ kind = "none"
    /\ reuse = FALSE
    /\ cfgName = << >>
    /\ engine = InitEngine("none")
    /\ nextId = ForeignID + 1
    /\ InitHandle

InitHelm ==
    /\ NoContainer
    /\ chart \in {NewHelmChart(file) : file \in {"helm/helm.go", "unnamed/part_002"}}
    /\ cluster = Unbuilt
    /\ forward = Unbuilt

NextHelm ==
    \/ Values
    \/ SetValue
    \/ GetValues

SpecHelm == InitHelm /\ [][NextHelm]_vars

\* C26 as the specification states it: GetValues returns the root map, in
\* which every path that a Values or SetValue call has set, and no later call
\* has overwritten, leads to the value most recently set there.
C26_SetValueKeepsRoot ==
    (chart.op = "GetValues" /\ ~chart.panicked) =>
        \A path \in DOMAIN chart.expect :
            path \in DOMAIN chart.got /\ chart.got[path] = chart.expect[path]

-----------------------------------------------------------------------------
(* Termination of Start *)

\* the steps of a Start in progress: each engine call and each probe returns,
\* and the goroutine that called Start goes on to its next statement
StartSteps ==
    \/ Start_reuse
    \/ ensureContainerRunning
    \/ createAndStartContainer
    \/ createAndStartContainer_start
    \/ waitForStableState
    \/ waitForStableState_inspect
    \/ waitForStableState_sleep
    \/ SQLServer_Start_ports
    \/ ActiveMQ_Start_ports
    \/ ActiveMQ_Start_ports_web
    \/ ActiveMQ_Start_ports_jmx
    \/ SQLServer_waitForReady
    \/ SQLServer_waitForReady_probe
    \/ ActiveMQ_waitForReady
    \/ ActiveMQ_waitForReady_probe
    \/ waitForReady_sleep
    \/ ActiveMQ_Start_health

\* a handle of any of the three types on which Start is called again and
\* again, by a caller that keeps running
InitStart ==
    /\ kind \in {"generic", "sql", "amq"}
    /\ InitConfig({<<"n">>})
    /\ InitHandle
    /\ NoOthers

NextStart ==
    \/ Start
    \/ SQLServer_Start
    \/ ActiveMQ_Start
    \/ StartSteps
    \/ Cancel
    \/ ContainerExits

SpecStartFair == InitStart /\ [][NextStart]_vars /\ WF_vars(StartSteps)

\* a Start is in progress
InStart == call.op \in {"Start", "WStart"} /\ ~call.done

\* C27: every Start that has begun returns, with nil or with an error, after
\* at most 6 polls and 6 sleeps of the stability check and at most 30 (SQL
\* Server) or 60 (ActiveMQ) readiness attempts.
C27_EveryStartTerminates ==
    /\ [](/\ call.nPoll <= maxChecks /\ call.nSleep <= maxChecks
          /\ call.nAttempt <= maxRetries /\ call.nReadySleep <= maxRetries - 1
          /\ i <= maxRetries)
    /\ (InStart ~> (call.done /\ pc = "idle"))

\* a Start of SQL Server returned after the six polls of the stability check
\* and thirty failed readiness attempts
C27_Witness ==
    /\ kind = "sql" /\ call.op = "WStart" /\ call.done /\ pc = "idle"
    /\ call.nPoll = maxChecks
    /\ call.nAttempt = SQLServer_maxRetries
    /\ call.err = Exhausted

-----------------------------------------------------------------------------
(* Stop and Cleanup when the engine refuses *)

RemoveErr == Wrap("failed to remove container", engineErr)

\* C28: a Stop whose stop call failed returns the error and leaves the flag
\* and the identifier as they were; a Cleanup with reuse off whose remove call
\* failed returns the error and keeps the identifier, and a Cleanup called
\* right after it makes the remove call again.
C28_FailuresKeepTheHandle ==
    /\ []((call.op = "Stop" /\ call.err # nil) =>
            /\ call.err = StopErr /\ call.nStop = 1
            /\ isRunning = call.preRunning
            /\ containerID = call.preID /\ containerID # NoID)
    /\ []((call.op = "Cleanup" /\ call.nRemove = 1 /\ call.err # nil) =>
            /\ ~reuse
            /\ call.err = RemoveErr
            /\ containerID = call.preID /\ containerID # NoID)
    /\ [][(/\ call.op = "Cleanup" /\ call.err = RemoveErr
           /\ call'.op = "Cleanup") =>
              /\ call'.nStop = 1 /\ call'.nRemove = 1
              /\ call'.preID = call.preID
              /\ call'.err \in {nil, RemoveErr}
              /\ containerID' = IF call'.err = nil THEN NoID ELSE containerID]_vars

\* a Cleanup with reuse off failed in its remove call after its stop call
\* succeeded: it returned the error and the handle holds the identifier
C28_Witness ==
    /\ call.op = "Cleanup" /\ call.done /\ call.err = RemoveErr
    /\ ~reuse /\ call.nRemove = 1
    /\ containerID = call.preID /\ containerID # NoID
    /\ call.preRunning /\ ~isRunning

-----------------------------------------------------------------------------
(* Kind: the cluster manager (package kind)                                 *)
(*                                                                          *)
(* cluster.exists is whether the kind cluster of that name exists; the      *)
(* commands the manager runs can fail for reasons of their own, and those   *)
(* that need the cluster fail without it.  Observation: fluent is the last  *)
(* fluent operation called, fluentErr the error it failed with (nil when it *)
(* succeeded), observer and got the call of Error or MustSucceed that       *)
(* followed it and what Error returned.                                     *)

\* NewKind(name): no error recorded
NewKind(exists) ==
    [exists |-> exists, lastError |-> nil, panicked |-> FALSE,
     fluent |-> "NewKind", fluentErr |-> nil,
     observer |-> "none", got |-> nil]

\* what the three commands of Use can come to
UseOutcomes == {"export failed", "context failed", "verify failed", "ok"}

\* the error Use records, nil when all its commands succeed
Kind_Use(out) ==
    IF out = "export failed" THEN Errorf("failed to export kubeconfig")
    ELSE IF out = "context failed" THEN Errorf("failed to switch context")
    ELSE IF out = "verify failed"
    THEN Errorf("failed to verify cluster connection")
    ELSE nil

\* the error GetOrCreate records: it calls Use when the listing names the
\* cluster, and otherwise creates the cluster, waits for its nodes and calls Use
Kind_GetOrCreate(listed, created, out) ==
    IF listed /\ cluster.exists THEN Kind_Use(out)
    ELSE IF ~created THEN Errorf("failed to create kind cluster")
    ELSE Kind_Use(out)

\* the error Delete records
Kind_Delete(ok) == IF ~ok THEN Errorf("failed to delete kind cluster") ELSE nil

\* the error LoadImage records
Kind_LoadImage(ok) == IF ~ok THEN Errorf("failed to load image") ELSE nil

\* the error SetKubeconfig records
Kind_SetKubeconfig(got, written) ==
    IF ~got THEN Errorf("failed to get kubeconfig")
    ELSE IF ~written
    THEN Wrap("failed to write kubeconfig to temp file", <<"os error">>)
    ELSE nil

\* k.lastError after a fluent operation: assigned in its failure branches only
lastError_(lastError, e) == IF e # nil THEN e ELSE lastError

\* a fluent operation returns: e is the error it failed with, nil when it
\* succeeded
Fluent(op, e, exists) ==
    [cluster EXCEPT !.exists = exists,
                    !.lastError = lastError_(@, e),
                    !.fluent = op, !.fluentErr = e,
                    !.observer = "none", !.got = nil]

KindFrame ==
    UNCHANGED <<kind, reuse, cfgName, chart, forward, handleVars, endpoints,
                engineVars, cancelled, pc, i, call, hist>>

\* Kind.GetOrCreate: listed is whether `kind get clusters` succeeds (it names
\* the cluster exactly when the cluster exists), created whether `kind create
\* cluster` succeeds, which it cannot when the cluster exists; a cluster
\* that was created exists from then on, whatever Use comes to
GetOrCreate ==
    /\ ~cluster.panicked
    /\ \E listed \in BOOLEAN, created \in BOOLEAN, out \in UseOutcomes :
         /\ created => ~cluster.exists
         /\ cluster' = Fluent("GetOrCreate", Kind_GetOrCreate(listed, created, out),
                              cluster.exists \/ created)
    /\ KindFrame

Use ==
    /\ ~cluster.panicked
    /\ \E out \in UseOutcomes :
         /\ ~cluster.exists => out = "export failed"
         /\ cluster' = Fluent("Use", Kind_Use(out), cluster.exists)
    /\ KindFrame

Delete ==
    /\ ~cluster.panicked
    /\ \E ok \in BOOLEAN :
         cluster' = Fluent("Delete", Kind_Delete(ok), cluster.exists /\ ~ok)
    /\ KindFrame

LoadImage ==
    /\ ~cluster.panicked
    /\ \E ok \in BOOLEAN :
         /\ ok => cluster.exists
         /\ cluster' = Fluent("LoadImage", Kind_LoadImage(ok), cluster.exists)
    /\ KindFrame

SetKubeconfig ==
    /\ ~cluster.panicked
    /\ \E got \in BOOLEAN, written \in BOOLEAN :
         /\ got => cluster.exists
         /\ cluster' = Fluent("SetKubeconfig", Kind_SetKubeconfig(got, written),
                              cluster.exists)
    /\ KindFrame

\* Kind.Error
Error ==
    /\ ~cluster.panicked
    /\ cluster' = [cluster EXCEPT !.observer = "Error", !.got = cluster.lastError]
    /\ KindFrame

\* Kind.MustSucceed
MustSucceed ==
    /\ ~cluster.panicked
    /\ cluster' = [cluster EXCEPT !.observer = "MustSucceed",
                                  !.panicked = cluster.lastError # nil]
    /\ KindFrame

InitKind ==
    /\ NoContainer
    /\ chart = Unbuilt
    /\ cluster \in {NewKind(exists) : exists \in BOOLEAN}
    /\ forward = Unbuilt

NextKind ==
    \/ GetOrCreate
    \/ Use
    \/ Delete
    \/ LoadImage
    \/ SetKubeconfig
    \/ Error
    \/ MustSucceed

SpecKind == InitKind /\ [][NextKind]_vars

\* C29 as the specification states it: Error returns the error of the fluent
\* operation called last, nil when that operation succeeded, and MustSucceed
\* panics exactly when that operation failed.
C29_ErrorOfLastOperation ==
    /\ cluster.observer = "Error" => cluster.got = cluster.fluentErr
    /\ cluster.observer = "MustSucceed" =>
          (cluster.panicked <=> cluster.fluentErr # nil)

-----------------------------------------------------------------------------
(* Pod.ForwardPort (package helm)                                           *)
(*                                                                          *)
(* Time is counted in units of 100 ms.  forward.pc is the position of the   *)
(* caller's goroutine, forward.pf the kubectl port-forward command that the *)
(* background goroutine runs, forward.ctx the context that cancel() ends.   *)
(* The command starts to listen on the local port at some time or never,    *)
(* and exits when it fails or when its context is cancelled.  Observation:  *)
(* lastDial is what the last net.DialTimeout came to, stopped whether the   *)
(* returned stop function has been called.                                  *)

\* the timeout of net.DialTimeout, 500 ms
dialTimeout == 5

\* the time after which ForwardPort gives up, 10 s
deadline == 100

\* the sleep between two dials, 100 ms
pollInterval == 1

\* a pod on which ForwardPort has not been called
NoForward ==
    [pc |-> "idle", elapsed |-> 0, pf |-> "none", ctx |-> "none",
     ret |-> "none", lastDial |-> "none", stopped |-> FALSE]

ForwardFrame ==
    UNCHANGED <<kind, reuse, cfgName, chart, cluster, handleVars, endpoints,
                engineVars, cancelled, pc, i, call, hist>>

\* ForwardPort up to its loop: getFreePort, which panics when it cannot
\* listen, the context, and the goroutine that runs the command
ForwardPort ==
    /\ forward.pc = "idle"
    /\ \E listened \in BOOLEAN :
         forward' = IF ~listened
                    THEN [forward EXCEPT !.pc = "panicked"]
                    ELSE [forward EXCEPT !.pc = "dial", !.pf = "starting",
                                         !.ctx = "live"]
    /\ ForwardFrame

\* the background goroutine: kubectl port-forward begins to listen
PortForward_listens ==
    /\ forward.pf = "starting"
    /\ forward.ctx = "live"
    /\ forward' = [forward EXCEPT !.pf = "listening"]
    /\ ForwardFrame

\* the background goroutine: the command returns, because it failed or
\* because its context was cancelled
PortForward_exits ==
    /\ forward.pf \in {"starting", "listening"}
    /\ forward' = [forward EXCEPT !.pf = "exited"]
    /\ ForwardFrame

\* net.DialTimeout of one iteration: it connects when the command listens, and
\* the loop ends with the return of the port and of the stop function
ForwardPort_dial ==
    /\ forward.pc = "dial"
    /\ \E d \in 0..dialTimeout :
         forward' =
            IF forward.pf = "listening"
            THEN [forward EXCEPT !.elapsed = @ + d, !.lastDial = "connected",
                                 !.pc = "returned", !.ret = "port"]
            ELSE [forward EXCEPT !.elapsed = @ + d, !.lastDial = "failed",
                                 !.pc = "check"]
    /\ ForwardFrame

\* the timeout branch returning without cancel()
ForwardPort_check_noCancel ==
    /\ forward.pc = "check"
    /\ forward' =
          IF forward.elapsed > deadline
          THEN [forward EXCEPT !.pc = "returned", !.ret = "nil"]
          ELSE [forward EXCEPT !.pc = "sleep"]
    /\ ForwardFrame

\* after a failed dial: if time.Since(start) > 10 s, cancel() and return nil
\* with a stop function that does nothing
ForwardPort_check ==
    /\ forward.pc = "check"
    /\ forward' =
          IF forward.elapsed > deadline
          THEN [forward EXCEPT !.ctx = "cancelled", !.pc = "returned",
                               !.ret = "nil"]
          ELSE [forward EXCEPT !.pc = "sleep"]
    /\ ForwardFrame

\* time.Sleep(100 ms) and the next iteration
ForwardPort_sleep ==
    /\ forward.pc = "sleep"
    /\ forward' = [forward EXCEPT !.elapsed = @ + pollInterval, !.pc = "dial"]
    /\ ForwardFrame

\* the caller calls the stop function that ForwardPort returned
ForwardPort_stop ==
    /\ forward.pc = "returned"
    /\ ~forward.stopped
    /\ forward' = [forward EXCEPT
                      !.stopped = TRUE,
                      !.ctx = IF forward.ret = "port" THEN "cancelled" ELSE @]
    /\ ForwardFrame

InitForward ==
    /\ NoContainer
    /\ chart = Unbuilt
    /\ cluster = Unbuilt
    /\ forward = NoForward

NextForward ==
    \/ ForwardPort
    \/ PortForward_listens
    \/ PortForward_exits
    \/ ForwardPort_dial
    \/ ForwardPort_check
    \/ ForwardPort_sleep
    \/ ForwardPort_stop

SpecForward == InitForward /\ [][NextForward]_vars

\* C30 as the specification states it, for its deadline: when no connection
\* has succeeded within 10 s, ForwardPort returns a nil port, so the port it
\* returns comes from a connection made within 10 s.
C30_PortOnlyWithinDeadline ==
    forward.ret = "port" => forward.elapsed <= deadline

\* C30, amended: while ForwardPort polls, the port-forward is not cancelled;
\* it returns a nil port only after a dial failed more than 10 s after the
\* start, and has then cancelled the port-forward; it returns the local port
\* only after a dial connected, which can be as late as 10 s plus one sleep
\* and one dial, and the port-forward is then cancelled exactly when the stop
\* function has been called; it never returns a nil port with the
\* port-forward uncancelled.
C30_NilPortMeansCancelled ==
    /\ forward.pc \in {"dial", "check", "sleep"} =>
          /\ forward.ctx = "live" /\ forward.ret = "none"
          /\ forward.pc = "dial" => forward.elapsed <= deadline + pollInterval
    /\ forward.elapsed <= deadline + pollInterval + dialTimeout
    /\ forward.ret = "nil" =>
          /\ forward.ctx = "cancelled"
          /\ forward.lastDial = "failed"
          /\ forward.elapsed > deadline
    /\ forward.ret = "port" =>
          /\ forward.lastDial = "connected"
          /\ forward.ctx = (IF forward.stopped THEN "cancelled" ELSE "live")
    /\ forward.pc = "panicked" => forward.pf = "none" /\ forward.ret = "none"

\* ForwardPort gave up after more than 10 s and returned a nil port: the
\* port-forward, which never listened, is cancelled
C30_Witness ==
    /\ forward.pc = "returned" /\ forward.ret = "nil"
    /\ forward.elapsed > deadline
    /\ forward.ctx = "cancelled"
    /\ forward.pf = "starting"

====
